---- MODULE Spec2Model ----
(***************************************************************************)
(* Verification model of the AutoAgents API gateway                        *)
(* (crates/linkerd-gateway and its near-duplicate cncf-autoagents/fortress)*)
(*                                                                         *)
(* Strings the code inspects character by character (prefix tests,         *)
(* substring tests, concatenation) are sequences of one-character strings. *)
(* Time is counted in whole seconds.                                       *)
(***************************************************************************)
EXTENDS Integers, Sequences, FiniteSets, TLC

(***************************************************************************)
(* Bounds of the model                                                     *)
(***************************************************************************)
MaxRpm == 3
MaxBurst == 1
MaxChecks == 4
MaxRedisChecks == 3
MaxRequests == 2
MaxCalls == 2

(***************************************************************************)
(* Program constants                                                       *)
(***************************************************************************)
\* the refill divisor and the sliding window: one minute
WindowSecs == 60
\* (tokens is a u32 and refill_amount a u64 in the code; the model's
\* arithmetic is unbounded, and every value it reaches stays far below 2^31.)

\* Option<T>: None, or Some(x)
None == << >>
Some(x) == <<x>>
IsSome(o) == o # << >>
Unwrap(o) == o[1]

Min(a, b) == IF a < b THEN a ELSE b

(***************************************************************************)
(* Strings                                                                 *)
(***************************************************************************)
\* str::starts_with
StartsWith(s, p) == Len(p) <= Len(s) /\ SubSeq(s, 1, Len(p)) = p

\* str::ends_with
EndsWith(s, p) == Len(p) <= Len(s) /\ SubSeq(s, Len(s) - Len(p) + 1, Len(s)) = p

\* str::contains
Contains(s, sub) ==
    \E i \in 1..(Len(s) - Len(sub) + 1) : SubSeq(s, i, i + Len(sub) - 1) = sub

\* str::strip_prefix
StripPrefix(s, p) == IF StartsWith(s, p) THEN Some(SubSeq(s, Len(p) + 1, Len(s))) ELSE None

\* [String]::join(",")
RECURSIVE JoinComma(_)
JoinComma(parts) ==
    IF parts = << >> THEN << >>
    ELSE IF Len(parts) = 1 THEN parts[1]
    ELSE parts[1] \o <<",">> \o JoinComma(Tail(parts))

S_Bearer == <<"B", "e", "a", "r", "e", "r", " ">>
S_Basic == <<"B", "a", "s", "i", "c", " ", "x">>
S_default == <<"d", "e", "f", "a", "u", "l", "t">>
S_victim == <<"v", "i", "c", "t", "i", "m">>
S_user == <<"u", "s", "e", "r">>
S_NoCache == <<"n", "o", "-", "c", "a", "c", "h", "e">>
S_Private == <<"p", "r", "i", "v", "a", "t", "e">>
S_WildcardSuffix == <<"/", "*">>

PathHealth == <<"/", "h", "e", "a", "l", "t", "h">>
PathMetrics == <<"/", "m", "e", "t", "r", "i", "c", "s">>
PathAuth == <<"/", "a", "p", "i", "/", "v", "1", "/", "a", "u", "t", "h">>

\* values the model's requests and configuration are built from
PathApiX == <<"/", "a", "p", "i", "/", "x">>
PathTraversal == <<"/", ".", ".", "/", "e", "t", "c", "/", "p", "a", "s", "s", "w", "d">>
SvcA == <<"s", "v", "c", "A">>
SvcGhost == <<"g", "h", "o", "s", "t">>
TokenA == <<"t", "o", "k", "A">>
TokenD == <<"t", "o", "k", "D">>
JwtGood == <<"g", "o", "o", "d">>
JwtOther == <<"g", "o", "o", "d", "2">>
JwtExpired == <<"o", "l", "d">>
JwtForged == <<"b", "a", "d">>
UnionSelect == <<"u", "n", "i", "o", "n", " ", "s", "e", "l", "e", "c", "t">>
PeerIp == <<"1", "0", ".", "0", ".", "0", ".", "1">>
UpstreamA == <<"h", "t", "t", "p", ":", "/", "/", "a", "/", "x">>
UpstreamBad == <<"h", "t", "t", "p", ":", "/", "/", "b", " ", "d">>
DefaultUpstream == <<"h", "t", "t", "p", ":", "/", "/", "l", "o", "c", "a", "l", "h", "o", "s", "t", ":", "8", "0", "8", "1">>

UserPrefix == <<"u", "s", "e", "r", ":">>
IpPrefix == <<"i", "p", ":">>
Unknown == <<"u", "n", "k", "n", "o", "w", "n">>

VARIABLES
    rl_config,      \* RateLimitConfig: requests_per_minute, burst_limit
    now,            \* the clock, in seconds
    local_limits,   \* local_limits: HashMap<String, RateLimitState>
    checks,         \* history: per client key, the checks made, in order
    zsets,          \* the shared store: per key "rate:<client>", a sorted set
    rproc,          \* distributed mode: each in-flight check's position and locals
    overlapped,     \* history: two distributed checks were in flight at once
    gw_config,      \* GatewayConfig: auth, cache, routing
    req,            \* the request in the middleware stack (as the current layer holds it)
    stage,          \* the layer of the stack that acts next on the request
    trace,          \* history: the layers that acted on the request, in order
    resp,           \* the response on its way out
    cache_store,    \* the shared store of the cache: key -> CacheEntry
    cache_pending,  \* the cache layer awaits the inner response: its key, or None
    served,         \* history: requests completed
    snap,           \* history: local_limits and cache_store when the request arrived
    audit,          \* history of the request in the stack: what each layer decided
    bearer_keys,    \* history: <<bearer token, client key>> of the limiter's checks
    first_body,     \* history: per cache key, the body sent to the client whose
                    \* response was stored
    enforcer,       \* SecurityEnforcer: blocked_ips, allowed_origins, max_request_size
    routed,         \* history: the calls made on Router::find_route directly, as its
                    \* tests make them, and what each returned
    router_lb,      \* the Router of the GatewayService: round_robin_index, connection_counts
    flights,        \* per connection task: the request it handles, where it is, and the
                    \* Router of the clone of the service that handles it
    lb_log          \* history: the calls made on the Router's counters and cursor directly

vars == <<rl_config, now, local_limits, checks, zsets, rproc, overlapped,
          gw_config, req, stage, trace, resp, cache_store, cache_pending, served, snap,
          audit, bearer_keys, first_body, enforcer, routed,
          router_lb, flights, lb_log>>

gw_vars == <<gw_config, req, stage, trace, resp, cache_store, cache_pending, served, snap,
             audit, bearer_keys, first_body, enforcer, routed,
          router_lb, flights, lb_log>>

\* no request in the stack, no response
NoRequest == [method |-> << >>, path |-> << >>, query |-> None, peer |-> None,
              headers |-> << >>, upstream_uri |-> None]

NoResponse == [status |-> 0, source |-> "none", body |-> "", headers |-> << >>]

\* nothing decided yet: the request as it arrived, the AuthGuard's branch, the
\* limiter's client key, whether the store answered the cache's two lookups
NoAudit == [arrived |-> NoRequest, via |-> "none", rl_key |-> None,
            lookups |-> <<FALSE, FALSE>>, dispatched_at |-> 0]

(***************************************************************************)
(* GatewayConfig values the model draws from (config.rs)                   *)
(***************************************************************************)
M_GET == <<"G", "E", "T">>
M_POST == <<"P", "O", "S", "T">>
M_PUT == <<"P", "U", "T">>
M_DELETE == <<"D", "E", "L", "E", "T", "E">>

\* CacheConfig::default: ttl_seconds
CacheTtlSecs == 300

\* AuthConfig.mcp_auth_tokens: two services with an expected token each
McpAuthTokens == (S_default :> TokenD) @@ (SvcA :> TokenA)

\* RoutingConfig.routes: an exact route for GET, and a route of any method
\* whose upstream is not a URI
Routes ==
    << [path |-> PathApiX, upstream |-> UpstreamA, methods |-> {M_GET},
        timeout_ms |-> None],
       [path |-> PathHealth, upstream |-> UpstreamBad, methods |-> {},
        timeout_ms |-> None] >>

GatewayConfigs ==
    [auth : [enabled : BOOLEAN, mcp_auth_tokens : {McpAuthTokens}],
     cache : [enabled : BOOLEAN, ttl_seconds : {CacheTtlSecs}],
     routing : [routes : {Routes},
                default_upstream : {None, Some(DefaultUpstream)}]]

\* SecurityEnforcer::new: max_request_size
MaxRequestSize == 10 * 1024 * 1024

\* SecurityEnforcer::new: nothing blocked, no origin list, the 10 MB limit
NewEnforcer ==
    [blocked_ips |-> {}, allowed_origins |-> {}, max_request_size |-> MaxRequestSize]

\* an AtomicUsize of 64 bits, as four limbs of 16 bits, the most significant
\* first
UsizeZero == <<0, 0, 0, 0>>

\* Router::new: the cursor at 0 and a counter at 0 for the upstream of every
\* route of the table
NewRouter(config) ==
    [round_robin_index |-> UsizeZero,
     connection_counts |->
        [u \in {config.routes[i].upstream : i \in 1..Len(config.routes)} |-> UsizeZero]]

\* the tasks hyper runs the connections' requests on
Tasks == {"t1", "t2"}

\* a task with no request
IdleFlight == [pc |-> "idle", request |-> NoRequest, router |-> None, dispatched |-> None]

\* the gateway at rest: nothing in the stack, an empty cache
GatewayAtRest ==
    /\ routed = << >>
    /\ router_lb = NewRouter(gw_config.routing)
    /\ flights = [t \in Tasks |-> IdleFlight]
    /\ lb_log = << >>
    /\ req = NoRequest
    /\ stage = "idle"
    /\ trace = << >>
    /\ resp = NoResponse
    /\ cache_store = << >>
    /\ cache_pending = None
    /\ served = 0
    /\ snap = [local_limits |-> << >>, cache_store |-> << >>]
    /\ audit = NoAudit
    /\ bearer_keys = {}
    /\ first_body = << >>

\* the limiter-only specifications leave the gateway at rest
GatewayIdle ==
    /\ gw_config = [auth |-> [enabled |-> TRUE, mcp_auth_tokens |-> McpAuthTokens],
                    cache |-> [enabled |-> TRUE, ttl_seconds |-> CacheTtlSecs],
                    routing |-> [routes |-> Routes, default_upstream |-> None]]
    /\ enforcer = NewEnforcer
    /\ GatewayAtRest

(***************************************************************************)
(* RateLimitConfig values the model draws from                             *)
(***************************************************************************)
RateLimitConfigs ==
    [enabled : BOOLEAN, requests_per_minute : 1..MaxRpm, burst_limit : 0..MaxBurst]

(***************************************************************************)
(* Client keys of the limiter-only specifications: get_client_key's two    *)
(* shapes, "user:<id>" and "ip:<addr>".                                    *)
(***************************************************************************)
KeyUser == UserPrefix \o S_user
KeyIp == IpPrefix \o PeerIp
ClientKeys == {KeyUser, KeyIp}

\* Seconds by which a request arrives after the previous event.
Deltas == {0, 1, 20, 30, 59, 60}

(***************************************************************************)
(* check_local_limit_static: the token bucket, under the map's mutex.      *)
(* Returns the new map and the verdict.                                    *)
(***************************************************************************)
CheckLocalLimitNoConsume(limits, key, t, cfg) ==
    LET rpm == cfg.requests_per_minute
        state0 == IF key \in DOMAIN limits THEN limits[key]
                  ELSE [tokens |-> rpm, last_refill |-> t]
        elapsed == t - state0.last_refill
        refill_amount == (elapsed * rpm) \div WindowSecs
        state1 == IF refill_amount > 0
                  THEN [tokens |-> Min(state0.tokens + refill_amount, rpm),
                        last_refill |-> t]
                  ELSE state0
    IN  [limits |-> (key :> state1) @@ limits, allowed |-> state1.tokens > 0,
         overflow |-> FALSE, entered |-> (key :> state0) @@ limits]

\* 64- and 32-bit unsigned values are kept as a high part and a low 16-bit
\* limb, so that no intermediate value reaches 2^31 (elapsed < 2^31
\* seconds, requests_per_minute < 2^15)
Radix == 256 * 256

\* (elapsed.as_secs() * requests_per_minute as u64) / 60, a u64
RefillAmount(elapsed, rpm) ==
    LET p_lo == (elapsed % Radix) * rpm
        p_hi == (elapsed \div Radix) * rpm + (p_lo \div Radix)
    IN  [hi |-> p_hi \div WindowSecs,
         lo |-> ((p_hi % WindowSecs) * Radix + (p_lo % Radix)) \div WindowSecs]

\* state.tokens + refill_amount as u32: the cast keeps the low 32 bits, the
\* sum is a u32 addition; overflow tells that it left the u32 range
AddRefillAsU32(tokens, refill_amount) ==
    LET s_lo == (tokens % Radix) + refill_amount.lo
        s_hi == (tokens \div Radix) + (refill_amount.hi % Radix) + (s_lo \div Radix)
    IN  [hi |-> s_hi % Radix, lo |-> s_lo % Radix, overflow |-> s_hi >= Radix]

\* u32::min(sum, requests_per_minute)
MinU32(sum, rpm) ==
    IF \/ sum.hi > rpm \div Radix
       \/ sum.hi = rpm \div Radix /\ sum.lo >= rpm % Radix
    THEN rpm
    ELSE sum.hi * Radix + sum.lo

\* the refill without .min(requests_per_minute)
CheckLocalLimitNoCap(limits, key, t, cfg) ==
    LET rpm == cfg.requests_per_minute
        state0 == IF key \in DOMAIN limits THEN limits[key]
                  ELSE [tokens |-> rpm, last_refill |-> t]
        refill_amount == RefillAmount(t - state0.last_refill, rpm)
        sum == AddRefillAsU32(state0.tokens, refill_amount)
        state1 == IF refill_amount.hi > 0 \/ refill_amount.lo > 0
                  THEN [tokens |-> sum.hi * Radix + sum.lo,
                        last_refill |-> t]
                  ELSE state0
        allowed == state1.tokens > 0
        state2 == IF allowed THEN [state1 EXCEPT !.tokens = @ - 1] ELSE state1
    IN  [limits |-> (key :> state2) @@ limits, allowed |-> allowed,
         overflow |-> FALSE, entered |-> (key :> state0) @@ limits]

CheckLocalLimitStatic(limits, key, t, cfg) ==
    LET rpm == cfg.requests_per_minute
        \* limits.entry(key).or_insert_with(..)
        state0 == IF key \in DOMAIN limits THEN limits[key]
                  ELSE [tokens |-> rpm, last_refill |-> t]
        \* now.duration_since(state.last_refill).as_secs()
        elapsed == t - state0.last_refill
        refill_amount == RefillAmount(elapsed, rpm)
        refill == refill_amount.hi > 0 \/ refill_amount.lo > 0
        \* (state.tokens + refill_amount as u32).min(requests_per_minute); the
        \* addition wraps when overflow checks are off
        sum == AddRefillAsU32(state0.tokens, refill_amount)
        state1 == IF refill
                  THEN [tokens |-> MinU32(sum, rpm), last_refill |-> t]
                  ELSE state0
        allowed == state1.tokens > 0
        state2 == IF allowed THEN [state1 EXCEPT !.tokens = @ - 1] ELSE state1
    \* overflow: the addition left the u32 range, a panic when overflow checks
    \* are on; entered: the map as the panic leaves it, the entry inserted
    IN  [limits |-> (key :> state2) @@ limits, allowed |-> allowed,
         overflow |-> refill /\ sum.overflow,
         entered |-> (key :> state0) @@ limits]

TotalChecks == LET RECURSIVE Sum(_)
                   Sum(S) == IF S = {} THEN 0
                             ELSE LET k == CHOOSE x \in S : TRUE
                                  IN  Len(checks[k]) + Sum(S \ {k})
               IN  Sum(DOMAIN checks)

(***************************************************************************)
(* Local mode: a request of client key k arrives d seconds after the       *)
(* previous one and is checked against the bucket.                         *)
(***************************************************************************)
LocalCheck(k, d) ==
    /\ TotalChecks < MaxChecks
    /\ now' = now + d
    /\ LET r == CheckLocalLimitStatic(local_limits, k, now + d, rl_config)
       IN  \E overflow_checks \in BOOLEAN :
               IF r.overflow /\ overflow_checks
               THEN \* the task panics with the entry inserted and no verdict
                    /\ local_limits' = r.entered
                    /\ checks' = [checks EXCEPT ![k] = Append(@, [t |-> now + d, allowed |-> FALSE, err |-> TRUE])]
               ELSE /\ local_limits' = r.limits
                    /\ checks' = [checks EXCEPT ![k] = Append(@, [t |-> now + d, allowed |-> r.allowed, err |-> FALSE])]
    /\ UNCHANGED <<rl_config, zsets, rproc, overlapped>>
    /\ UNCHANGED gw_vars

Procs == {"p1", "p2"}

IdleProc == [pc |-> "idle", key |-> None, now |-> 0]

InitLocal ==
    /\ rl_config \in {c \in RateLimitConfigs : c.enabled}
    /\ now = 0
    /\ local_limits = << >>
    /\ checks = [k \in ClientKeys |-> << >>]
    /\ zsets = [k \in ClientKeys |-> {}]
    /\ rproc = [p \in Procs |-> IdleProc]
    /\ overlapped = FALSE
    /\ GatewayIdle

NextLocal == \E k \in ClientKeys, d \in Deltas : LocalCheck(k, d)

SpecLocal == InitLocal /\ [][NextLocal]_vars

(***************************************************************************)
(* Local mode over long idle periods, with the default limit of            *)
(* RateLimitConfig::default (1000 requests per minute): after 257698037    *)
(* seconds the refill is 2^32 - 13, after one second more 2^32 + 4.        *)
(***************************************************************************)
IdleDeltas == {0, 1, 60, 257698037, 257698038}

InitIdle ==
    /\ rl_config \in {c \in [enabled : {TRUE}, requests_per_minute : {MaxRpm, 1000},
                             burst_limit : {0}] : TRUE}
    /\ now = 0
    /\ local_limits = << >>
    /\ checks = [k \in ClientKeys |-> << >>]
    /\ zsets = [k \in ClientKeys |-> {}]
    /\ rproc = [p \in Procs |-> IdleProc]
    /\ overlapped = FALSE
    /\ GatewayIdle

NextIdle == \E k \in ClientKeys, d \in IdleDeltas : LocalCheck(k, d)

SpecIdle == InitIdle /\ [][NextIdle]_vars

(***************************************************************************)
(* Distributed mode: check_redis_limit_static.  Each command is one        *)
(* round-trip to the store; checks of concurrent requests interleave       *)
(* between round-trips.  The sorted set holds members with scores; the     *)
(* code adds member = score = now (whole seconds), so a set of integers.   *)
(***************************************************************************)
\* seconds that pass before a check reads the clock
RedisDeltas == {0, 1, 60}

\* conn.zadd(key, now, now)
ZAdd(set, member) == set \cup {member}

\* conn.zremrangebyscore(key, min, max)
ZRemRangeByScore(set, min, max) == {m \in set : ~(min <= m /\ m <= max)}

\* conn.zcount(key, min, max)
ZCount(set, min, max) == Cardinality({m \in set : min <= m /\ m <= max})

\* Ok(count <= config.requests_per_minute as i64)
RedisVerdictStrict(count, cfg) == count < cfg.requests_per_minute

RedisVerdict(count, cfg) == count <= cfg.requests_per_minute

InFlight == {p \in Procs : rproc[p].pc # "idle"}

\* call: a request of client key k enters the limiter
RedisBegin(p, k) ==
    /\ rproc[p].pc = "idle"
    /\ TotalChecks + Cardinality(InFlight) < MaxRedisChecks
    /\ rproc' = [rproc EXCEPT ![p] = [pc |-> "connect", key |-> k, now |-> 0]]
    /\ overlapped' = (overlapped \/ InFlight # {})
    /\ UNCHANGED <<rl_config, now, local_limits, checks, zsets>>
    /\ UNCHANGED gw_vars

\* client.get_async_connection().await?; let now = Utc::now().timestamp()
RedisConnect(p, d) ==
    /\ rproc[p].pc = "connect"
    /\ now' = now + d
    /\ rproc' = [rproc EXCEPT ![p].pc = "zadd", ![p].now = now + d]
    /\ UNCHANGED <<rl_config, local_limits, checks, zsets, overlapped>>
    /\ UNCHANGED gw_vars

\* conn.zadd(key, now, now).await?
RedisZadd(p) ==
    /\ rproc[p].pc = "zadd"
    /\ zsets' = [zsets EXCEPT ![rproc[p].key] = ZAdd(@, rproc[p].now)]
    /\ rproc' = [rproc EXCEPT ![p].pc = "zrem"]
    /\ UNCHANGED <<rl_config, now, local_limits, checks, overlapped>>
    /\ UNCHANGED gw_vars

\* conn.zremrangebyscore(key, 0, window_start).await?
RedisZrem(p) ==
    /\ rproc[p].pc = "zrem"
    /\ zsets' = [zsets EXCEPT ![rproc[p].key] =
                    ZRemRangeByScore(@, 0, rproc[p].now - WindowSecs)]
    /\ rproc' = [rproc EXCEPT ![p].pc = "zcount"]
    /\ UNCHANGED <<rl_config, now, local_limits, checks, overlapped>>
    /\ UNCHANGED gw_vars

\* conn.zcount(key, window_start, now).await?; the verdict returns to call
RedisZcount(p) ==
    /\ rproc[p].pc = "zcount"
    /\ LET k == rproc[p].key
           count == ZCount(zsets[k], rproc[p].now - WindowSecs, rproc[p].now)
       IN  checks' = [checks EXCEPT ![k] =
                         Append(@, [t |-> rproc[p].now,
                                    allowed |-> RedisVerdict(count, rl_config),
                                    err |-> FALSE])]
    /\ rproc' = [rproc EXCEPT ![p] = IdleProc]
    /\ UNCHANGED <<rl_config, now, local_limits, zsets, overlapped>>
    /\ UNCHANGED gw_vars

\* a round-trip fails: `?` returns Err and call's unwrap_or(false) rejects
RedisError(p) ==
    /\ rproc[p].pc \in {"connect", "zadd", "zrem", "zcount"}
    /\ checks' = [checks EXCEPT ![rproc[p].key] =
                     Append(@, [t |-> IF rproc[p].pc = "connect" THEN now
                                      ELSE rproc[p].now,
                                allowed |-> FALSE, err |-> TRUE])]
    /\ rproc' = [rproc EXCEPT ![p] = IdleProc]
    /\ UNCHANGED <<rl_config, now, local_limits, zsets, overlapped>>
    /\ UNCHANGED gw_vars

InitRedis ==
    /\ rl_config \in {c \in RateLimitConfigs : c.enabled /\ c.burst_limit = 0}
    /\ now = 0
    /\ local_limits = << >>
    /\ checks = [k \in ClientKeys |-> << >>]
    /\ zsets = [k \in ClientKeys |-> {}]
    /\ rproc = [p \in Procs |-> IdleProc]
    /\ overlapped = FALSE
    /\ GatewayIdle

NextRedis ==
    \/ \E p \in Procs, k \in ClientKeys : RedisBegin(p, k)
    \/ \E p \in Procs, d \in RedisDeltas : RedisConnect(p, d)
    \/ \E p \in Procs : RedisZadd(p)
    \/ \E p \in Procs : RedisZrem(p)
    \/ \E p \in Procs : RedisZcount(p)
    \/ \E p \in Procs : RedisError(p)

SpecRedis == InitRedis /\ [][NextRedis]_vars

(***************************************************************************)
(* The limiter as RateLimitMiddleware::new builds it from a configuration  *)
(* with a redis_url: call takes the store's check when a client was built  *)
(* and the local bucket otherwise.                                         *)
(***************************************************************************)
RedisScheme == <<"r", "e", "d", "i", "s", ":", "/", "/">>
StoreUrl == RedisScheme \o <<"s">>
\* an address written without its scheme
StoreUrlNoScheme == <<"s", ":", "6", "3", "7", "9">>

\* redis::Client::open(url).ok(): the URL is parsed, nothing is connected; a
\* URL is refused unless it has a scheme of the store
ClientOpen(url) == IF StartsWith(url, RedisScheme) THEN Some(url) ELSE None

\* RateLimitMiddleware::new: the redis_client field
NewRedisClient(config) ==
    IF IsSome(config.redis_url) THEN ClientOpen(Unwrap(config.redis_url)) ELSE None

\* call with redis_client.is_some(): check_redis_limit_static
StoreCheck ==
    /\ IsSome(NewRedisClient(rl_config))
    /\ NextRedis

\* call without a client: check_local_limit_static
BucketCheck(k, d) ==
    /\ ~IsSome(NewRedisClient(rl_config))
    /\ LocalCheck(k, d)

InitStore ==
    /\ rl_config \in [enabled : {TRUE}, requests_per_minute : 1..MaxRpm, burst_limit : {0},
                      redis_url : {None, Some(StoreUrl), Some(StoreUrlNoScheme)}]
    /\ now = 0
    /\ local_limits = << >>
    /\ checks = [k \in ClientKeys |-> << >>]
    /\ zsets = [k \in ClientKeys |-> {}]
    /\ rproc = [p \in Procs |-> IdleProc]
    /\ overlapped = FALSE
    /\ GatewayIdle

NextStore ==
    \/ StoreCheck
    \/ \E k \in ClientKeys, d \in RedisDeltas : BucketCheck(k, d)

SpecStore == InitStore /\ [][NextStore]_vars

(***************************************************************************)
(* AuthGuard: middleware/auth.rs                                           *)
(***************************************************************************)

PublicPaths == {PathHealth, PathMetrics, PathAuth}

\* AuthConfig::requires_auth: true for the PUBLIC paths (the caller skips
\* authentication when it returns true)
RequiresAuth(path) == \E public_path \in PublicPaths : StartsWith(path, public_path)

\* AuthConfig::validate_mcp_token
ValidateMcpTokenAnyService(cfg, token, service) ==
    \E sv \in DOMAIN cfg.mcp_auth_tokens : cfg.mcp_auth_tokens[sv] = token

ValidateMcpToken(cfg, token, service) ==
    /\ service \in DOMAIN cfg.mcp_auth_tokens
    /\ cfg.mcp_auth_tokens[service] = token

\* AuthConfig::validate_jwt: "TODO: Implement proper JWT validation. For now,
\* just check if token exists"
ValidateJwt(cfg, token) ==
    IF ~cfg.enabled THEN [ok |-> TRUE, sub |-> << >>, roles |-> << >>]
    ELSE IF token = << >> THEN [ok |-> FALSE, sub |-> << >>, roles |-> << >>]
    ELSE [ok |-> TRUE, sub |-> S_user, roles |-> <<S_user>>]

\* AuthMiddleware::extract_bearer_token
ExtractBearerToken(headers) ==
    IF "authorization" \in DOMAIN headers
    THEN StripPrefix(headers["authorization"], S_Bearer)
    ELSE None

\* AuthMiddlewareService::call: forward to the inner service (with the
\* claims headers after a bearer validation) or answer 401
AuthMiddlewareCall(cfg, r) ==
    LET h == r.headers
        service == IF "x-mcp-service" \in DOMAIN h THEN h["x-mcp-service"]
                   ELSE S_default
        mcp_ok == /\ "x-mcp-token" \in DOMAIN h
                  /\ ValidateMcpToken(cfg, h["x-mcp-token"], service)
        bearer == ExtractBearerToken(h)
        claims == IF IsSome(bearer) THEN ValidateJwt(cfg, Unwrap(bearer))
                  ELSE [ok |-> FALSE, sub |-> << >>, roles |-> << >>]
    IN  IF ~cfg.enabled \/ RequiresAuth(r.path)
        THEN [forward |-> TRUE, via |-> "skip", req |-> r]
        ELSE IF mcp_ok
        THEN [forward |-> TRUE, via |-> "mcp", req |-> r]
        ELSE IF claims.ok
        THEN [forward |-> TRUE, via |-> "jwt",
              req |-> [r EXCEPT !.headers =
                          ("x-user-id" :> claims.sub)
                          @@ ("x-user-roles" :> JoinComma(claims.roles)) @@ h]]
        ELSE [forward |-> FALSE, via |-> "none", req |-> r]

(***************************************************************************)
(* RateLimiter: the client key (middleware/rate_limit.rs)                  *)
(***************************************************************************)
\* RateLimitMiddlewareService::get_client_key
GetClientKey(r) ==
    IF "x-user-id" \in DOMAIN r.headers
    THEN UserPrefix \o r.headers["x-user-id"]
    ELSE IF IsSome(r.peer) THEN IpPrefix \o Unwrap(r.peer)
    ELSE Unknown

(***************************************************************************)
(* ResponseCache: middleware/cache.rs                                      *)
(***************************************************************************)
\* format!("\"{}\"", x)
Quote(x) == <<"\"">> \o x \o <<"\"">>

\* uuid::Uuid::new_v4().simple(): the values the model draws
Uuids == {<<"e", "1">>}

\* an eligibility test that lets requests with an Authorization header in
IsCacheableWithAuthorization(r) ==
    /\ r.method = M_GET
    /\ ~("cache-control" \in DOMAIN r.headers
         /\ Contains(r.headers["cache-control"], S_NoCache))

\* CacheMiddlewareService::is_cacheable
IsCacheable(r) ==
    /\ r.method = M_GET
    /\ "authorization" \notin DOMAIN r.headers
    /\ ~("cache-control" \in DOMAIN r.headers
         /\ Contains(r.headers["cache-control"], S_NoCache))

\* CacheMiddleware::generate_cache_key: the key string; the 64-bit hash of
\* it is taken to separate the (few) key strings of the model
KeyHeaderPart(r, name, shown) ==
    IF name \in DOMAIN r.headers
    THEN <<":">> \o shown \o <<":">> \o r.headers[name]
    ELSE << >>

GenerateCacheKey(r) ==
    <<"c", "a", "c", "h", "e", ":">> \o r.method \o <<":">> \o r.path
    \o (IF IsSome(r.query) THEN <<"?">> \o Unwrap(r.query) ELSE << >>)
    \o KeyHeaderPart(r, "accept", <<"A", "c", "c", "e", "p", "t">>)
    \o KeyHeaderPart(r, "accept-language",
           <<"A", "c", "c", "e", "p", "t", "-", "L", "a", "n", "g", "u", "a", "g", "e">>)
    \o KeyHeaderPart(r, "authorization",
           <<"A", "u", "t", "h", "o", "r", "i", "z", "a", "t", "i", "o", "n">>)

\* a storability test that does not look at the status
IsResponseCacheableAnyStatus(response) ==
    ~("cache-control" \in DOMAIN response.headers
      /\ (\/ Contains(response.headers["cache-control"], S_NoCache)
          \/ Contains(response.headers["cache-control"], S_Private)))

\* CacheMiddlewareService::is_response_cacheable
IsResponseCacheable(response) ==
    /\ response.status >= 200 /\ response.status < 300
    /\ ~("cache-control" \in DOMAIN response.headers
         /\ (\/ Contains(response.headers["cache-control"], S_NoCache)
             \/ Contains(response.headers["cache-control"], S_Private)))

\* a lookup that still serves an entry whose age equals the TTL
GetFromCacheAtTtl(store, key, cfg, t) ==
    IF ~cfg.enabled THEN None
    ELSE IF key \in DOMAIN store /\ t - store[key].timestamp <= cfg.ttl_seconds
    THEN Some(store[key])
    ELSE None

\* CacheMiddlewareService::get_from_cache_static; store is the shared store,
\* whose set_ex entries expire after ttl_seconds
GetFromCache(store, key, cfg, t) ==
    IF ~cfg.enabled THEN None
    ELSE IF key \in DOMAIN store /\ t - store[key].timestamp < cfg.ttl_seconds
    THEN Some(store[key])
    ELSE None

\* a CacheEntry that loses the body
NewCacheEntryEmptyBody(response, uuid, t) ==
    [body |-> "", headers |-> response.headers,
     etag |-> Quote(uuid), timestamp |-> t]

\* the CacheEntry built by store_in_cache_static
NewCacheEntry(response, uuid, t) ==
    [body |-> response.body, headers |-> response.headers,
     etag |-> Quote(uuid), timestamp |-> t]

\* CacheMiddlewareService::create_response_from_cache_static
CreateResponseFromCache(entry) ==
    [status |-> 200, source |-> "cache", body |-> entry.body,
     headers |-> ("etag" :> entry.etag) @@ entry.headers]

\* the conditional branch of call: the If-None-Match value against the entry
IfNoneMatchHits(entry, if_none_match) == Quote(entry.etag) = if_none_match

(***************************************************************************)
(* Router: routing.rs, and GatewayService::build_upstream_uri              *)
(***************************************************************************)
\* str::split('/')
RECURSIVE SplitFrom(_, _, _)
SplitFrom(s, i, cur) ==
    IF i > Len(s) THEN <<cur>>
    ELSE IF s[i] = "/" THEN <<cur>> \o SplitFrom(s, i + 1, << >>)
    ELSE SplitFrom(s, i + 1, Append(cur, s[i]))

Split(s) == SplitFrom(s, 1, << >>)

\* str::replace(from, to): every non-overlapping occurrence, left to right
RECURSIVE ReplaceAll(_, _, _)
ReplaceAll(s, from, to) ==
    IF Len(s) < Len(from) \/ from = << >> THEN s
    ELSE IF SubSeq(s, 1, Len(from)) = from
    THEN to \o ReplaceAll(SubSeq(s, Len(from) + 1, Len(s)), from, to)
    ELSE <<s[1]>> \o ReplaceAll(Tail(s), from, to)

\* Router::matches_parameterized_route
MatchesParameterizedRoute(route_pattern, path) ==
    LET route_parts == Split(route_pattern)
        path_parts == Split(path)
    IN  /\ Len(route_parts) = Len(path_parts)
        /\ \A i \in 1..Len(route_parts) :
              \/ (StartsWith(route_parts[i], <<"{">>) /\ EndsWith(route_parts[i], <<"}">>))
              \/ route_parts[i] = path_parts[i]

\* matches_route without the test of the method
MatchesRouteAnyMethod(route, path, method) ==
    IF route.path = path THEN TRUE
    ELSE IF EndsWith(route.path, S_WildcardSuffix)
    THEN StartsWith(path, SubSeq(route.path, 1, Len(route.path) - 2))
    ELSE IF Contains(route.path, <<"{">>) /\ Contains(route.path, <<"}">>)
    THEN MatchesParameterizedRoute(route.path, path)
    ELSE FALSE

\* Router::matches_route
MatchesRoute(route, path, method) ==
    IF route.methods # {} /\ method \notin route.methods THEN FALSE
    ELSE IF route.path = path THEN TRUE
    ELSE IF EndsWith(route.path, S_WildcardSuffix)
    THEN StartsWith(path, SubSeq(route.path, 1, Len(route.path) - 2))
    ELSE IF Contains(route.path, <<"{">>) /\ Contains(route.path, <<"}">>)
    THEN MatchesParameterizedRoute(route.path, path)
    ELSE FALSE

\* the synthetic route of find_route for the default upstream
DefaultRoute(upstream) ==
    [path |-> S_WildcardSuffix, upstream |-> upstream,
     methods |-> {M_GET, M_POST, M_PUT, M_DELETE}, timeout_ms |-> Some(30000)]

\* find_route that keeps looking after a match and returns the last one
RECURSIVE LastMatch(_, _, _)
LastMatch(routes, path, method) ==
    IF routes = << >> THEN None
    ELSE IF MatchesRoute(routes[Len(routes)], path, method) THEN Some(routes[Len(routes)])
    ELSE LastMatch(SubSeq(routes, 1, Len(routes) - 1), path, method)

\* Router::find_route
RECURSIVE FirstMatch(_, _, _)
FirstMatch(routes, path, method) ==
    IF routes = << >> THEN None
    ELSE IF MatchesRoute(Head(routes), path, method) THEN Some(Head(routes))
    ELSE FirstMatch(Tail(routes), path, method)

\* find_route whose default route answers only the methods it lists
FindRouteDefaultByMethod(cfg, path, method) ==
    LET found == FirstMatch(cfg.routes, path, method)
    IN  IF IsSome(found) THEN found
        ELSE IF /\ IsSome(cfg.default_upstream)
                /\ method \in DefaultRoute(Unwrap(cfg.default_upstream)).methods
        THEN Some(DefaultRoute(Unwrap(cfg.default_upstream)))
        ELSE None

FindRoute(cfg, path, method) ==
    LET found == FirstMatch(cfg.routes, path, method)
    IN  IF IsSome(found) THEN found
        ELSE IF IsSome(cfg.default_upstream)
        THEN Some(DefaultRoute(Unwrap(cfg.default_upstream)))
        ELSE None

\* Uri::try_from(String) of the http crate: what it refuses, as far as the
\* model's strings go (an empty string, a character outside the URI set)
UriParses(u) == u # << >> /\ \A i \in 1..Len(u) : u[i] \notin {" ", "<", ">"}

\* GatewayService::build_upstream_uri.  kind "panic": the slice
\* path[route.path.len() - 1..] starts beyond the end of the path
BuildUpstreamUri(route, r) ==
    LET with_query == IF IsSome(r.query)
                      THEN route.upstream \o <<"?">> \o Unwrap(r.query)
                      ELSE route.upstream
    IN  IF EndsWith(route.path, S_WildcardSuffix)
        THEN IF Len(route.path) - 1 > Len(r.path)
             THEN [kind |-> "panic", uri |-> << >>]
             ELSE LET remaining_path == SubSeq(r.path, Len(route.path), Len(r.path))
                      url == ReplaceAll(with_query, S_WildcardSuffix, remaining_path)
                  IN  [kind |-> IF UriParses(url) THEN "ok" ELSE "err", uri |-> url]
        ELSE [kind |-> IF UriParses(with_query) THEN "ok" ELSE "err", uri |-> with_query]

(***************************************************************************)
(* SecurityEnforcer: security.rs.                                          *)
(***************************************************************************)
UpperChars == <<"A", "B", "C", "D", "E", "F", "G", "H", "I", "J", "K", "L", "M", "N", "O", "P", "Q", "R", "S", "T", "U", "V", "W", "X", "Y", "Z">>
LowerChars == <<"a", "b", "c", "d", "e", "f", "g", "h", "i", "j", "k", "l", "m", "n", "o", "p", "q", "r", "s", "t", "u", "v", "w", "x", "y", "z">>
Digits == <<"0", "1", "2", "3", "4", "5", "6", "7", "8", "9">>

ToLowerChar(c) ==
    IF \E i \in 1..Len(UpperChars) : UpperChars[i] = c
    THEN LowerChars[CHOOSE i \in 1..Len(UpperChars) : UpperChars[i] = c]
    ELSE c

ToLower(s) == [i \in 1..Len(s) |-> ToLowerChar(s[i])]

\* is_match of the regex a.*b: a, then b later on the same line
MatchesGap(s, a, b) ==
    \E i \in 1..Len(s), j \in 1..Len(s) :
        /\ i + Len(a) <= j
        /\ j + Len(b) - 1 <= Len(s)
        /\ SubSeq(s, i, i + Len(a) - 1) = a
        /\ SubSeq(s, j, j + Len(b) - 1) = b
        /\ \A k \in (i + Len(a))..(j - 1) : s[k] # "\n"

\* one of blocked_paths matches: \.\./  \.\.\\  <script  javascript:  data:
\* vbscript:  onload=  onerror=
BlockedPathMatches(path) ==
    \E pat \in {<<".", ".", "/">>, <<".", ".", "\\">>,
                <<"<", "s", "c", "r", "i", "p", "t">>,
                <<"j", "a", "v", "a", "s", "c", "r", "i", "p", "t", ":">>,
                <<"d", "a", "t", "a", ":">>, <<"v", "b", "s", "c", "r", "i", "p", "t", ":">>,
                <<"o", "n", "l", "o", "a", "d", "=">>, <<"o", "n", "e", "r", "r", "o", "r", "=">>} :
        Contains(path, pat)

\* one of suspicious_patterns matches (each is compiled with (?i)):
\* union.*select  script.*alert  eval\(  document\.cookie  xmlhttprequest
SuspiciousPatternMatches(text) ==
    LET l == ToLower(text)
    IN  \/ MatchesGap(l, <<"u", "n", "i", "o", "n">>, <<"s", "e", "l", "e", "c", "t">>)
        \/ MatchesGap(l, <<"s", "c", "r", "i", "p", "t">>, <<"a", "l", "e", "r", "t">>)
        \/ Contains(l, <<"e", "v", "a", "l", "(">>)
        \/ Contains(l, <<"d", "o", "c", "u", "m", "e", "n", "t", ".", "c", "o", "o", "k", "i", "e">>)
        \/ Contains(l, <<"x", "m", "l", "h", "t", "t", "p", "r", "e", "q", "u", "e", "s", "t">>)

\* str::parse::<usize> of a digit string, as far as max_request_size + 1
RECURSIVE ParseUsizeFrom(_, _, _)
ParseUsizeFrom(s, i, acc) ==
    IF i > Len(s) THEN Some(acc)
    ELSE IF \E d \in 1..10 : Digits[d] = s[i]
    THEN LET d == CHOOSE d \in 1..10 : Digits[d] = s[i]
             nxt == acc * 10 + (d - 1)
         IN  ParseUsizeFrom(s, i + 1, Min(nxt, MaxRequestSize + 1))
    ELSE None

ParseUsize(s) == IF s = << >> THEN None ELSE ParseUsizeFrom(s, 1, 0)

\* str::trim: leading and trailing whitespace dropped
RECURSIVE Trim(_)
Trim(s) ==
    IF s = << >> THEN s
    ELSE IF Head(s) \in {" ", "\t"} THEN Trim(Tail(s))
    ELSE IF s[Len(s)] \in {" ", "\t"} THEN Trim(SubSeq(s, 1, Len(s) - 1))
    ELSE s

\* str::split(',').next(): what precedes the first comma, the whole without one
FirstOfSplit(s) ==
    IF \E i \in 1..Len(s) : s[i] = ","
    THEN SubSeq(s, 1, (CHOOSE i \in 1..Len(s) : s[i] = "," /\ \A j \in 1..(i - 1) : s[j] # ",") - 1)
    ELSE s

\* SecurityEnforcer::get_client_ip: the first entry of X-Forwarded-For, else
\* the socket address of the request's extensions
GetClientIp(r) ==
    IF "x-forwarded-for" \in DOMAIN r.headers
    THEN Some(Trim(FirstOfSplit(r.headers["x-forwarded-for"])))
    ELSE r.peer

\* check_request with the path patterns tried before the blocklist
CheckRequestPathFirst(self, r) ==
    IF BlockedPathMatches(r.path) THEN "MaliciousPath"
    ELSE IF IsSome(GetClientIp(r)) /\ Unwrap(GetClientIp(r)) \in self.blocked_ips
    THEN "BlockedIP"
    ELSE IF IsSome(r.query) /\ SuspiciousPatternMatches(Unwrap(r.query))
    THEN "SuspiciousContent"
    ELSE IF \E name \in DOMAIN r.headers : SuspiciousPatternMatches(r.headers[name])
    THEN "SuspiciousContent"
    ELSE IF /\ "content-length" \in DOMAIN r.headers
            /\ IsSome(ParseUsize(r.headers["content-length"]))
            /\ Unwrap(ParseUsize(r.headers["content-length"])) > self.max_request_size
    THEN "RequestTooLarge"
    ELSE IF /\ "origin" \in DOMAIN r.headers
            /\ self.allowed_origins # {}
            /\ r.headers["origin"] \notin self.allowed_origins
    THEN "UnauthorizedOrigin"
    ELSE "ok"

\* SecurityEnforcer::check_request: "ok" or the SecurityError
CheckRequest(self, r) ==
    IF IsSome(GetClientIp(r)) /\ Unwrap(GetClientIp(r)) \in self.blocked_ips
    THEN "BlockedIP"
    ELSE IF BlockedPathMatches(r.path) THEN "MaliciousPath"
    ELSE IF IsSome(r.query) /\ SuspiciousPatternMatches(Unwrap(r.query))
    THEN "SuspiciousContent"
    ELSE IF \E name \in DOMAIN r.headers : SuspiciousPatternMatches(r.headers[name])
    THEN "SuspiciousContent"
    ELSE IF /\ "content-length" \in DOMAIN r.headers
            /\ IsSome(ParseUsize(r.headers["content-length"]))
            /\ Unwrap(ParseUsize(r.headers["content-length"])) > self.max_request_size
    THEN "RequestTooLarge"
    ELSE IF /\ "origin" \in DOMAIN r.headers
            /\ self.allowed_origins # {}
            /\ r.headers["origin"] \notin self.allowed_origins
    THEN "UnauthorizedOrigin"
    ELSE "ok"

\* SecurityMiddleware::call: the status it answers, 0 when it forwards
SecurityMiddlewareStatus(self, r) ==
    LET verdict == CheckRequest(self, r)
    IN  IF verdict = "ok" THEN 0
        ELSE IF verdict \in {"BlockedIP", "UnauthorizedOrigin"} THEN 403
        ELSE IF verdict = "RequestTooLarge" THEN 413
        ELSE 400

(***************************************************************************)
(* The gateway: the middleware stack of LinkerdGateway::serve (lib.rs),    *)
(* outermost first Trace, Compression, Cors, Auth, RateLimit, Cache, then  *)
(* GatewayService.  The first three pass the model's requests through.     *)
(* The limiter runs in local mode (no redis client).                       *)
(***************************************************************************)
S_ApplicationJson == <<"a", "p", "p", "l", "i", "c", "a", "t", "i", "o", "n", "/", "j", "s", "o", "n">>
S_TextPlain == <<"t", "e", "x", "t", "/", "p", "l", "a", "i", "n">>
S_RetryAfter == <<"6", "0">>
S_GatewayVersion == <<"1", ".", "0", ".", "0">>
S_PoweredBy == <<"A", "u", "t", "o", "A", "g", "e", "n", "t", "s", "-", "G", "a", "t", "e", "w", "a", "y">>
S_GatewayName == <<"L", "i", "n", "k", "e", "r", "d", "-", "A", "u", "t", "o", "A", "g", "e", "n", "t", "s">>
S_Http == <<"h", "t", "t", "p">>

RECURSIVE NatToString(_)
NatToString(n) ==
    IF n < 10 THEN <<Digits[n + 1]>>
    ELSE NatToString(n \div 10) \o <<Digits[(n % 10) + 1]>>

WithHeader(h, name, opt) == IF IsSome(opt) THEN (name :> Unwrap(opt)) @@ h ELSE h

MakeRequest(method, path, authorization, mcp_token, mcp_service, user_agent, cache_control, if_none_match) ==
    [method |-> method, path |-> path, query |-> None, peer |-> Some(PeerIp),
     upstream_uri |-> None,
     headers |->
        WithHeader(WithHeader(WithHeader(WithHeader(WithHeader(WithHeader(<< >>,
            "authorization", authorization),
            "x-mcp-token", mcp_token),
            "x-mcp-service", mcp_service),
            "user-agent", user_agent),
            "cache-control", cache_control),
            "if-none-match", if_none_match)]

\* Authorization headers: none, an empty bearer token, a genuine token, an
\* expired one, a forged one, another scheme
AuthorizationValues ==
    {None, Some(S_Bearer), Some(S_Bearer \o JwtGood), Some(S_Bearer \o JwtExpired),
     Some(S_Bearer \o JwtForged), Some(S_Basic)}

\* X-MCP-Token with X-MCP-Service: the right token for a named service, the
\* right one for "default", a wrong one for "default", one for no such service
McpPairs ==
    {<<TokenA, Some(SvcA)>>, <<TokenD, None>>, <<TokenA, None>>,
     <<TokenA, Some(SvcGhost)>>}

CredentialRequests ==
    {MakeRequest(M_GET, p, a, None, None, None, None, None) :
        p \in {PathHealth, PathApiX}, a \in AuthorizationValues}
    \cup
    {MakeRequest(M_GET, p, a, Some(m[1]), m[2], None, None, None) :
        p \in {PathHealth, PathApiX}, a \in {None, Some(S_Bearer \o JwtForged)},
        m \in McpPairs}

PipelineRequests ==
    {MakeRequest(M_GET, p, a, None, None, ua, None, None) :
        p \in {PathHealth, PathApiX, PathTraversal},
        a \in {None, Some(S_Bearer \o JwtGood), Some(S_Bearer \o JwtOther)},
        ua \in {None, Some(UnionSelect)}}
    \cup
    {MakeRequest(m, p, None, None, None, None, cc, inm) :
        m \in {M_GET, M_POST}, p \in {PathHealth, PathApiX},
        cc \in {None, Some(S_NoCache)},
        inm \in {None} \cup {Some(Quote(u)) : u \in Uuids}
                \cup {Some(Quote(Quote(u))) : u \in Uuids}}

\* requests that bring their own X-User-ID: to a public path, to a protected
\* path with a service token
ForgedIdentityRequests ==
    {[r EXCEPT !.headers = ("x-user-id" :> S_victim) @@ @] :
        r \in {MakeRequest(M_GET, PathHealth, None, None, None, None, None, None),
               MakeRequest(M_GET, PathApiX, None, Some(TokenD), None, None, None, None)}}

Requests == CredentialRequests \cup PipelineRequests \cup ForgedIdentityRequests

\* the peer address in the request's extensions: Fortress::serve inserts it,
\* LinkerdGateway::serve does not
Peers == {None, Some(PeerIp)}

JsonHeaders == "content-type" :> S_ApplicationJson

\* a JSON value of a response body: a string, a number, an RFC 3339 time
\* (a string in that format, kept as the second it denotes) or an object
JStr(s) == [kind |-> "string", text |-> s]
JNum(n) == [kind |-> "number", num |-> n]
JTime(t) == [kind |-> "rfc3339", secs |-> t]
JObj(fields) == [kind |-> "object", fields |-> fields]

\* GatewayService::create_error_response; the timestamp is Utc::now()
CreateErrorResponse(status, message) ==
    [status |-> status, source |-> "router", body |-> message, headers |-> JsonHeaders,
     json |-> JObj("error" :> JObj(("code" :> JNum(status))
                                   @@ ("message" :> JStr(message))
                                   @@ ("timestamp" :> JTime(now))))]

\* where the response of the inner service goes: back through the cache
\* layer when it forwarded a cacheable request, else out
AfterInner == IF IsSome(cache_pending) THEN "cache_store" ELSE "done"

\* a connection hands a request to the stack
Receive(r, peer) ==
    /\ stage = "idle"
    /\ served < MaxRequests
    /\ req' = [r EXCEPT !.peer = peer]
    /\ audit' = [NoAudit EXCEPT !.arrived = [r EXCEPT !.peer = peer]]
    /\ stage' = "auth"
    /\ trace' = << >>
    /\ resp' = NoResponse
    /\ snap' = [local_limits |-> local_limits, cache_store |-> cache_store]
    /\ UNCHANGED <<enforcer, routed, router_lb, flights, lb_log, rl_config, now, local_limits, checks, zsets, rproc, overlapped,
                   gw_config, cache_store, cache_pending, served, bearer_keys, first_body>>

\* AuthMiddlewareService::call that builds the 401 and still calls the inner
\* service
AuthCallForwardsRejected ==
    /\ stage = "auth"
    /\ trace' = Append(trace, "auth")
    /\ audit' = [audit EXCEPT !.via = AuthMiddlewareCall(gw_config.auth, req).via]
    /\ LET out == AuthMiddlewareCall(gw_config.auth, req)
       IN  /\ req' = out.req
           /\ stage' = "rate_limit"
           /\ resp' = IF out.forward THEN resp
                      ELSE [status |-> 401, source |-> "auth",
                            body |-> "{\"error\": \"Authentication required\"}",
                            headers |-> JsonHeaders,
                            json |-> JObj("error" :> JStr("Authentication required"))]
    /\ UNCHANGED <<enforcer, routed, router_lb, flights, lb_log, rl_config, now, local_limits, checks, zsets, rproc, overlapped,
                   gw_config, cache_store, cache_pending, served, snap, bearer_keys, first_body>>

\* AuthMiddlewareService::call
AuthCall ==
    /\ stage = "auth"
    /\ trace' = Append(trace, "auth")
    /\ audit' = [audit EXCEPT !.via = AuthMiddlewareCall(gw_config.auth, req).via]
    /\ LET out == AuthMiddlewareCall(gw_config.auth, req)
       IN  IF out.forward
           THEN /\ req' = out.req
                /\ stage' = "rate_limit"
                /\ resp' = resp
           ELSE /\ req' = req
                /\ stage' = "done"
                /\ resp' = [status |-> 401, source |-> "auth",
                            body |-> "{\"error\": \"Authentication required\"}",
                            headers |-> JsonHeaders,
                            json |-> JObj("error" :> JStr("Authentication required"))]
    /\ UNCHANGED <<enforcer, routed, router_lb, flights, lb_log, rl_config, now, local_limits, checks, zsets, rproc, overlapped,
                   gw_config, cache_store, cache_pending, served, snap, bearer_keys, first_body>>

\* RateLimitMiddlewareService::call, local mode
RateLimitCall ==
    /\ stage = "rate_limit"
    /\ trace' = Append(trace, "rate_limit")
    /\ IF ~rl_config.enabled
       THEN /\ stage' = "cache"
            /\ UNCHANGED <<local_limits, resp, audit, bearer_keys>>
       ELSE LET client_key == GetClientKey(req)
                out == CheckLocalLimitStatic(local_limits, client_key, now, rl_config)
                bearer == ExtractBearerToken(audit.arrived.headers)
            IN  /\ local_limits' = out.limits
                /\ audit' = [audit EXCEPT !.rl_key = Some(client_key)]
                /\ bearer_keys' = IF audit.via = "jwt"
                                  THEN bearer_keys \cup {<<Unwrap(bearer), client_key>>}
                                  ELSE bearer_keys
                /\ IF out.allowed
                   THEN stage' = "cache" /\ resp' = resp
                   ELSE /\ stage' = "done"
                        /\ resp' = [status |-> 429, source |-> "rate_limit",
                                    body |-> "{\"error\": \"Rate limit exceeded\", \"retry_after\": 60}",
                                    headers |->
                                       ("retry-after" :> S_RetryAfter)
                                       @@ ("x-rate-limit-limit" :>
                                              NatToString(rl_config.requests_per_minute))
                                       @@ JsonHeaders,
                                    json |-> JObj(("error" :> JStr("Rate limit exceeded"))
                                                  @@ ("retry_after" :> JNum(60)))]
    /\ UNCHANGED <<enforcer, routed, router_lb, flights, lb_log, rl_config, now, checks, zsets, rproc, overlapped,
                   gw_config, req, cache_store, cache_pending, served, snap, first_body>>

\* CacheMiddlewareService::call up to the inner call; ok1 and ok2: the store
\* answers the first and the second get_from_cache_static
CacheCall(ok1, ok2) ==
    /\ stage = "cache"
    /\ trace' = Append(trace, "cache")
    /\ IF ~gw_config.cache.enabled \/ ~IsCacheable(req)
       THEN /\ stage' = "router"
            /\ UNCHANGED <<resp, cache_pending, audit>>
       ELSE LET cache_key == GenerateCacheKey(req)
                asked1 == "if-none-match" \in DOMAIN req.headers
                e1 == IF ok1 THEN GetFromCache(cache_store, cache_key, gw_config.cache, now)
                      ELSE None
                e2 == IF ok2 THEN GetFromCache(cache_store, cache_key, gw_config.cache, now)
                      ELSE None
            IN  IF /\ "if-none-match" \in DOMAIN req.headers
                   /\ IsSome(e1)
                   /\ IfNoneMatchHits(Unwrap(e1), req.headers["if-none-match"])
                THEN /\ audit' = [audit EXCEPT !.lookups = <<TRUE, FALSE>>]
                     /\ resp' = [status |-> 304, source |-> "cache", body |-> "",
                                 headers |-> "etag" :> req.headers["if-none-match"]]
                     /\ stage' = "done"
                     /\ UNCHANGED cache_pending
                ELSE IF IsSome(e2)
                THEN /\ audit' = [audit EXCEPT !.lookups = <<asked1 /\ ok1, TRUE>>]
                     /\ resp' = CreateResponseFromCache(Unwrap(e2))
                     /\ stage' = "done"
                     /\ UNCHANGED cache_pending
                ELSE /\ audit' = [audit EXCEPT !.lookups = <<asked1 /\ ok1, ok2>>]
                     /\ cache_pending' = Some(cache_key)
                     /\ stage' = "router"
                     /\ UNCHANGED resp
    /\ UNCHANGED <<enforcer, routed, router_lb, flights, lb_log, rl_config, now, local_limits, checks, zsets, rproc, overlapped,
                   gw_config, req, cache_store, served, snap, bearer_keys, first_body>>

\* GatewayService::route_request up to the upstream call.  A panic of
\* build_upstream_uri ends the request without a response.
RouteRequest ==
    /\ stage = "router"
    /\ trace' = Append(trace, "router")
    /\ LET route == FindRoute(gw_config.routing, req.path, req.method)
       IN  IF ~IsSome(route)
           THEN /\ resp' = CreateErrorResponse(404, "Route not found")
                /\ stage' = AfterInner
                /\ req' = req
                /\ audit' = audit
           ELSE LET built == BuildUpstreamUri(Unwrap(route), req)
                IN  IF built.kind = "panic"
                    THEN /\ resp' = [NoResponse EXCEPT !.source = "panic"]
                         /\ stage' = "done"
                         /\ req' = req
                         /\ audit' = audit
                    ELSE IF built.kind = "err"
                    THEN /\ resp' = CreateErrorResponse(502, "Invalid upstream configuration")
                         /\ stage' = AfterInner
                         /\ req' = req
                         /\ audit' = audit
                    ELSE /\ req' = [req EXCEPT
                                     !.upstream_uri = Some(built.uri),
                                     !.headers = ("x-gateway" :> S_GatewayName)
                                                 @@ ("x-forwarded-proto" :> S_Http)
                                                 @@ @]
                         /\ stage' = "upstream"
                         /\ resp' = resp
                         /\ audit' = [audit EXCEPT !.dispatched_at = now]
    /\ UNCHANGED <<enforcer, routed, router_lb, flights, lb_log, rl_config, now, local_limits, checks, zsets, rproc, overlapped,
                   gw_config, cache_store, cache_pending, served, snap,
                   bearer_keys, first_body>>

\* the upstream's answers: a 200, a 200 that is private, a 200 that is
\* no-cache, a 500, no answer
UpstreamOutcomes == {"ok", "private", "no-cache", "error", "unreachable"}

\* the bodies the upstream answers a 200 with
UpstreamBodies == {"body one", "body two"}

\* the rest of route_request: self.client.request(req).await and its match
UpstreamReply(outcome, body) ==
    /\ stage = "upstream"
    /\ trace' = Append(trace, "upstream")
    /\ resp' =
          IF outcome = "unreachable"
          THEN CreateErrorResponse(502, "Upstream service unavailable")
          ELSE [status |-> IF outcome = "error" THEN 500 ELSE 200,
                source |-> "upstream",
                body |-> IF outcome = "ok" THEN body ELSE "upstream body",
                headers |->
                   ("x-gateway-version" :> S_GatewayVersion)
                   @@ ("x-powered-by" :> S_PoweredBy)
                   @@ (IF outcome = "private" THEN "cache-control" :> S_Private
                       ELSE IF outcome = "no-cache" THEN "cache-control" :> S_NoCache
                       ELSE << >>)
                   @@ ("content-type" :> S_TextPlain)]
    /\ stage' = AfterInner
    /\ UNCHANGED <<enforcer, routed, router_lb, flights, lb_log, rl_config, now, local_limits, checks, zsets, rproc, overlapped,
                   gw_config, req, cache_store, cache_pending, served, snap,
                   audit, bearer_keys, first_body>>

\* CacheMiddlewareService::call after the inner call; store_ok: set_ex took
CacheStore(uuid, store_ok) ==
    /\ stage = "cache_store"
    /\ trace' = Append(trace, "cache_store")
    /\ IF IsResponseCacheable(resp) /\ gw_config.cache.enabled /\ store_ok
       THEN /\ cache_store' = (Unwrap(cache_pending) :> NewCacheEntry(resp, uuid, now))
                                 @@ cache_store
            /\ first_body' = (Unwrap(cache_pending) :> resp.body) @@ first_body
       ELSE UNCHANGED <<cache_store, first_body>>
    /\ cache_pending' = None
    /\ stage' = "done"
    /\ UNCHANGED <<enforcer, routed, router_lb, flights, lb_log, rl_config, now, local_limits, checks, zsets, rproc, overlapped,
                   gw_config, req, resp, served, snap, audit, bearer_keys>>

\* the response is written (or the connection dropped); the stack is free
Finish ==
    /\ stage = "done"
    /\ served' = served + 1
    /\ stage' = "idle"
    /\ req' = NoRequest
    /\ resp' = NoResponse
    /\ trace' = << >>
    /\ cache_pending' = None
    /\ snap' = [local_limits |-> << >>, cache_store |-> << >>]
    /\ audit' = NoAudit
    /\ UNCHANGED <<enforcer, routed, router_lb, flights, lb_log, rl_config, now, local_limits, checks, zsets, rproc, overlapped,
                   gw_config, cache_store, bearer_keys, first_body>>

\* time passes between two requests: the instants the model visits
GatewayTimes == {0, 1, CacheTtlSecs - 1, CacheTtlSecs}

Advance(t) ==
    /\ stage = "idle"
    /\ t > now
    /\ now' = t
    /\ UNCHANGED <<rl_config, local_limits, checks, zsets, rproc, overlapped>>
    /\ UNCHANGED gw_vars

InitGateway ==
    /\ rl_config \in {c \in RateLimitConfigs :
                         c.burst_limit = 0 /\ c.requests_per_minute \in {1, MaxRpm}}
    /\ now = 0
    /\ local_limits = << >>
    /\ checks = [k \in ClientKeys |-> << >>]
    /\ zsets = [k \in ClientKeys |-> {}]
    /\ rproc = [p \in Procs |-> IdleProc]
    /\ overlapped = FALSE
    /\ gw_config \in GatewayConfigs
    /\ enforcer = NewEnforcer
    /\ GatewayAtRest

NextGateway ==
    \/ \E r \in Requests, peer \in Peers : Receive(r, peer)
    \/ AuthCall
    \/ RateLimitCall
    \/ \E ok1 \in BOOLEAN, ok2 \in BOOLEAN : CacheCall(ok1, ok2)
    \/ RouteRequest
    \/ \E outcome \in UpstreamOutcomes : UpstreamReply(outcome, "body one")
    \/ \E uuid \in Uuids, store_ok \in BOOLEAN : CacheStore(uuid, store_ok)
    \/ Finish

SpecGateway == InitGateway /\ [][NextGateway]_vars

(***************************************************************************)
(* The cache layer over time: the same stack with the AuthGuard and the    *)
(* limiter switched off, requests that differ in what the cache looks at,  *)
(* and time passing between requests.                                      *)
(***************************************************************************)
CacheRequests ==
    {MakeRequest(m, PathApiX, a, None, None, None, cc, inm) :
        m \in {M_GET, M_POST},
        a \in {None, Some(S_Bearer \o JwtGood)},
        cc \in {None, Some(S_NoCache)},
        inm \in {None} \cup {Some(Quote(u)) : u \in Uuids}
                \cup {Some(Quote(Quote(u))) : u \in Uuids}}

InitCache ==
    /\ rl_config = [enabled |-> FALSE, requests_per_minute |-> 1, burst_limit |-> 0]
    /\ now = 0
    /\ local_limits = << >>
    /\ checks = [k \in ClientKeys |-> << >>]
    /\ zsets = [k \in ClientKeys |-> {}]
    /\ rproc = [p \in Procs |-> IdleProc]
    /\ overlapped = FALSE
    /\ gw_config \in {c \in GatewayConfigs :
                         ~c.auth.enabled /\ c.routing.default_upstream = None}
    /\ enforcer = NewEnforcer
    /\ GatewayAtRest

NextCache ==
    \/ \E r \in CacheRequests : Receive(r, Some(PeerIp))
    \/ AuthCall
    \/ RateLimitCall
    \/ \E ok1 \in BOOLEAN, ok2 \in BOOLEAN : CacheCall(ok1, ok2)
    \/ RouteRequest
    \/ \E outcome \in UpstreamOutcomes, body \in UpstreamBodies :
          UpstreamReply(outcome, body)
    \/ \E uuid \in Uuids, store_ok \in BOOLEAN : CacheStore(uuid, store_ok)
    \/ Finish
    \/ \E t \in GatewayTimes : Advance(t)

SpecCache == InitCache /\ [][NextCache]_vars

(***************************************************************************)
(* SecurityMiddleware around an inner service (security.rs): the enforcer  *)
(* is built by SecurityEnforcer::new and its setters (block_ip,            *)
(* add_allowed_origin, set_max_request_size) before SecurityMiddleware::new *)
(* puts it behind an Arc, after which it does not change.                  *)
(***************************************************************************)
ProxyIp == <<"1", "0", ".", "0", ".", "0", ".", "9">>
ForwardedFor == <<" ", "1", "0", ".", "0", ".", "0", ".", "9", " ", ",", " ", "1", "0", ".", "0", ".", "0", ".", "1">>
OriginA == <<"h", "t", "t", "p", ":", "/", "/", "a">>
OriginB == <<"h", "t", "t", "p", ":", "/", "/", "b">>

\* the enforcers the setters produce
Enforcers ==
    [blocked_ips : {{}, {ProxyIp}, {PeerIp}},
     allowed_origins : {{}, {OriginA}},
     max_request_size : {MaxRequestSize, 1024}]

\* requests that fail none, one or several of the checks
SecurityRequests ==
    {[method |-> M_GET, path |-> p, query |-> q, peer |-> None, upstream_uri |-> None,
      headers |-> WithHeader(WithHeader(WithHeader(WithHeader(<< >>,
                    "x-forwarded-for", xff),
                    "user-agent", ua),
                    "content-length", cl),
                    "origin", o)] :
        p \in {PathApiX, PathTraversal},
        q \in {None, Some(UnionSelect)},
        xff \in {None, Some(ForwardedFor)},
        ua \in {None, Some(UnionSelect)},
        cl \in {None, Some(NatToString(1024)), Some(NatToString(1025)),
                Some(NatToString(MaxRequestSize + 1))},
        o \in {None, Some(OriginA), Some(OriginB)}}

\* a connection hands a request to the SecurityMiddleware
SecurityReceive(r, peer) ==
    /\ stage = "idle"
    /\ served < MaxRequests
    /\ req' = [r EXCEPT !.peer = peer]
    /\ audit' = [NoAudit EXCEPT !.arrived = [r EXCEPT !.peer = peer]]
    /\ stage' = "security"
    /\ trace' = << >>
    /\ resp' = NoResponse
    /\ UNCHANGED <<enforcer, routed, router_lb, flights, lb_log, rl_config, now, local_limits, checks, zsets, rproc, overlapped,
                   gw_config, cache_store, cache_pending, served, snap, bearer_keys,
                   first_body>>

\* SecurityMiddleware::call: the message of the error response
SecurityMessage(verdict) ==
    CASE verdict = "BlockedIP" -> "Access denied"
      [] verdict = "MaliciousPath" -> "Invalid request path"
      [] verdict = "SuspiciousContent" -> "Invalid request content"
      [] verdict = "RequestTooLarge" -> "Request too large"
      [] OTHER -> "Unauthorized origin"

\* SecurityMiddleware::call: check_request, then the inner service or the
\* error response
SecurityCall ==
    /\ stage = "security"
    /\ trace' = Append(trace, "security")
    /\ LET status == SecurityMiddlewareStatus(enforcer, req)
       IN  IF status = 0
           THEN /\ stage' = "inner"
                /\ resp' = resp
           ELSE /\ stage' = "done"
                /\ resp' = [status |-> status, source |-> "security", body |-> "error",
                            headers |-> JsonHeaders,
                            json |-> JObj(("error" :> JStr(NatToString(status)))
                                          @@ ("message" :>
                                                 JStr(SecurityMessage(CheckRequest(enforcer, req)))))]
    /\ UNCHANGED <<enforcer, routed, router_lb, flights, lb_log, rl_config, now, local_limits, checks, zsets, rproc, overlapped,
                   gw_config, req, cache_store, cache_pending, served, snap, audit,
                   bearer_keys, first_body>>

\* the inner service answers
InnerCall ==
    /\ stage = "inner"
    /\ trace' = Append(trace, "inner")
    /\ resp' = [status |-> 200, source |-> "inner", body |-> "body one", headers |-> << >>]
    /\ stage' = "done"
    /\ UNCHANGED <<enforcer, routed, router_lb, flights, lb_log, rl_config, now, local_limits, checks, zsets, rproc, overlapped,
                   gw_config, req, cache_store, cache_pending, served, snap, audit,
                   bearer_keys, first_body>>

InitSecurity ==
    /\ rl_config = [enabled |-> FALSE, requests_per_minute |-> 1, burst_limit |-> 0]
    /\ now = 0
    /\ local_limits = << >>
    /\ checks = [k \in ClientKeys |-> << >>]
    /\ zsets = [k \in ClientKeys |-> {}]
    /\ rproc = [p \in Procs |-> IdleProc]
    /\ overlapped = FALSE
    /\ gw_config = [auth |-> [enabled |-> FALSE, mcp_auth_tokens |-> McpAuthTokens],
                    cache |-> [enabled |-> FALSE, ttl_seconds |-> CacheTtlSecs],
                    routing |-> [routes |-> Routes, default_upstream |-> None]]
    /\ enforcer \in Enforcers
    /\ GatewayAtRest

NextSecurity ==
    \/ \E r \in SecurityRequests, peer \in Peers : SecurityReceive(r, peer)
    \/ SecurityCall
    \/ InnerCall
    \/ Finish

SpecSecurity == InitSecurity /\ [][NextSecurity]_vars

(***************************************************************************)
(* The Router called directly (routing.rs), as its tests call it: a route  *)
(* table, then find_route on a path and a method.                          *)
(***************************************************************************)
\* an exact route for GET
RouteUsersGet ==
    [path |-> <<"/", "a", "p", "i", "/", "u", "s", "e", "r", "s">>, upstream |-> UpstreamA, methods |-> {M_GET}, timeout_ms |-> None]

\* the same path for POST only
RouteUsersPost ==
    [path |-> <<"/", "a", "p", "i", "/", "u", "s", "e", "r", "s">>, upstream |-> <<"h", "t", "t", "p", ":", "/", "/", "p">>, methods |-> {M_POST}, timeout_ms |-> None]

\* a prefix-wildcard route of any method whose upstream has the placeholder,
\* with a timeout of one second
RouteApiWildcard ==
    [path |-> <<"/", "a", "p", "i", "/", "*">>,
     upstream |-> <<"h", "t", "t", "p", ":", "/", "/", "u", "/", "*">>, methods |-> {},
     timeout_ms |-> Some(1000)]

\* a parameterized route of any method
RouteVParam ==
    [path |-> <<"/", "v", "/", "{", "i", "d", "}">>, upstream |-> <<"h", "t", "t", "p", ":", "/", "/", "v">>, methods |-> {}, timeout_ms |-> None]

\* route tables: the exact route before and after the wildcard that also
\* matches its path, the POST-only route alone with the parameterized one
\* and followed by the wildcard
RouteTables ==
    {<<RouteUsersGet, RouteApiWildcard>>,
     <<RouteApiWildcard, RouteUsersGet>>,
     <<RouteUsersPost, RouteVParam, RouteApiWildcard>>,
     <<RouteVParam, RouteUsersPost>>}

\* /api/users, /api/users/1, /apiary, /api, /v/7, /v/7/8, /v/, /other
RoutingPaths ==
    {<<"/", "a", "p", "i", "/", "u", "s", "e", "r", "s">>,
     <<"/", "a", "p", "i", "/", "u", "s", "e", "r", "s", "/", "1">>,
     <<"/", "a", "p", "i", "a", "r", "y">>, <<"/", "a", "p", "i">>,
     <<"/", "v", "/", "7">>, <<"/", "v", "/", "7", "/", "8">>, <<"/", "v", "/">>,
     <<"/", "o", "t", "h", "e", "r">>}

QueryX1 == <<"x", "=", "1">>

RoutingConfigs ==
    [routes : RouteTables, default_upstream : {None, Some(DefaultUpstream)}]

\* router.find_route(path, method)
FindRouteCall(path, method) ==
    /\ Len(routed) < MaxCalls
    /\ routed' = Append(routed, [path |-> path, method |-> method,
                                 route |-> FindRoute(gw_config.routing, path, method)])
    /\ UNCHANGED <<enforcer, router_lb, flights, lb_log, rl_config, now, local_limits, checks,
                   zsets, rproc, overlapped>>
    /\ UNCHANGED <<gw_config, req, stage, trace, resp, cache_store, cache_pending, served,
                   snap, audit, bearer_keys, first_body>>

InitRouter ==
    /\ rl_config = [enabled |-> FALSE, requests_per_minute |-> 1, burst_limit |-> 0]
    /\ now = 0
    /\ local_limits = << >>
    /\ checks = [k \in ClientKeys |-> << >>]
    /\ zsets = [k \in ClientKeys |-> {}]
    /\ rproc = [p \in Procs |-> IdleProc]
    /\ overlapped = FALSE
    /\ gw_config \in [auth : {[enabled |-> FALSE, mcp_auth_tokens |-> McpAuthTokens]},
                      cache : {[enabled |-> FALSE, ttl_seconds |-> CacheTtlSecs]},
                      routing : RoutingConfigs]
    /\ enforcer = NewEnforcer
    /\ GatewayAtRest

NextRouter == \E path \in RoutingPaths, method \in {M_GET, M_POST} : FindRouteCall(path, method)

SpecRouter == InitRouter /\ [][NextRouter]_vars

(***************************************************************************)
(* The GatewayService behind the stack with its layers switched off: what  *)
(* route_request forwards for the route tables of the Router above.        *)
(***************************************************************************)
ProxyRequests ==
    {[MakeRequest(method, path, None, None, None, None, None, None) EXCEPT !.query = query] :
        method \in {M_GET, M_POST, <<"P", "A", "T", "C", "H">>},
        path \in RoutingPaths, query \in {None, Some(QueryX1)}}

\* the upstream has not answered yet and time passes
UpstreamWaits(t) ==
    /\ stage = "upstream"
    /\ t > now
    /\ now' = t
    /\ UNCHANGED <<rl_config, local_limits, checks, zsets, rproc, overlapped>>
    /\ UNCHANGED gw_vars

NextProxy ==
    \/ \E t \in {1, 2} : UpstreamWaits(t)
    \/ \E r \in ProxyRequests : Receive(r, Some(PeerIp))
    \/ AuthCall
    \/ RateLimitCall
    \/ \E ok1 \in BOOLEAN, ok2 \in BOOLEAN : CacheCall(ok1, ok2)
    \/ RouteRequest
    \/ \E outcome \in UpstreamOutcomes : UpstreamReply(outcome, "body one")
    \/ Finish

SpecProxy == InitRouter /\ [][NextProxy]_vars

(***************************************************************************)
(* The Router's counters and cursor (routing.rs:100-209), called directly  *)
(* on the Router as a program that holds one calls them.                   *)
(***************************************************************************)
\* AtomicUsize::fetch_add(1): the value after it, wrapping at the width
FetchAdd1(v) ==
    LET low == {i \in 1..Len(v) : v[i] # 256 * 256 - 1}
    IN  IF low = {} THEN [i \in 1..Len(v) |-> 0]
        ELSE LET k == CHOOSE i \in low : \A j \in low : j <= i
             IN  [i \in 1..Len(v) |-> IF i < k THEN v[i] ELSE IF i = k THEN v[i] + 1 ELSE 0]

\* AtomicUsize::fetch_sub(1): the value after it, wrapping at the width
FetchSub1(v) ==
    LET low == {i \in 1..Len(v) : v[i] # 0}
    IN  IF low = {} THEN [i \in 1..Len(v) |-> 256 * 256 - 1]
        ELSE LET k == CHOOSE i \in low : \A j \in low : j <= i
             IN  [i \in 1..Len(v) |->
                    IF i < k THEN v[i] ELSE IF i = k THEN v[i] - 1 ELSE 256 * 256 - 1]

\* the upstreams the calls name: those of the table and one it does not have
CountedUpstreams == DOMAIN router_lb.connection_counts \cup {DefaultUpstream}

\* Router::increment_connection
IncrementConnection(upstream) ==
    /\ Len(lb_log) < MaxCalls
    /\ router_lb' =
          IF upstream \in DOMAIN router_lb.connection_counts
          THEN [router_lb EXCEPT !.connection_counts[upstream] = FetchAdd1(@)]
          ELSE router_lb
    /\ lb_log' = Append(lb_log, [op |-> "increment", upstream |-> upstream,
                                 observed |-> UsizeZero])
    /\ UNCHANGED <<enforcer, routed, flights, rl_config, now, local_limits, checks, zsets,
                   rproc, overlapped, gw_config, req, stage, trace, resp, cache_store,
                   cache_pending, served, snap, audit, bearer_keys, first_body>>

\* Router::decrement_connection
DecrementConnection(upstream) ==
    /\ Len(lb_log) < MaxCalls
    /\ router_lb' =
          IF upstream \in DOMAIN router_lb.connection_counts
          THEN [router_lb EXCEPT !.connection_counts[upstream] = FetchSub1(@)]
          ELSE router_lb
    /\ lb_log' = Append(lb_log, [op |-> "decrement", upstream |-> upstream,
                                 observed |-> UsizeZero])
    /\ UNCHANGED <<enforcer, routed, flights, rl_config, now, local_limits, checks, zsets,
                   rproc, overlapped, gw_config, req, stage, trace, resp, cache_store,
                   cache_pending, served, snap, audit, bearer_keys, first_body>>

\* Router::select_round_robin: the candidates are the route's one upstream,
\* the cursor is read and advanced in one fetch_add
SelectRoundRobin(route) ==
    /\ Len(lb_log) < MaxCalls
    /\ router_lb' = [router_lb EXCEPT !.round_robin_index = FetchAdd1(@)]
    /\ lb_log' = Append(lb_log, [op |-> "select", upstream |-> route.upstream,
                                 observed |-> router_lb.round_robin_index])
    /\ UNCHANGED <<enforcer, routed, flights, rl_config, now, local_limits, checks, zsets,
                   rproc, overlapped, gw_config, req, stage, trace, resp, cache_store,
                   cache_pending, served, snap, audit, bearer_keys, first_body>>

NextCounters ==
    \/ \E upstream \in CountedUpstreams : IncrementConnection(upstream)
    \/ \E upstream \in CountedUpstreams : DecrementConnection(upstream)
    \/ \E i \in 1..Len(gw_config.routing.routes) : SelectRoundRobin(gw_config.routing.routes[i])

SpecCounters == InitRouter /\ [][NextCounters]_vars

(***************************************************************************)
(* Requests handled concurrently by the GatewayService (gateway.rs): hyper *)
(* calls the service once per request, call clones the service and its     *)
(* Router, and route_request runs on the clone.                            *)
(***************************************************************************)
DispatchRequests ==
    {MakeRequest(M_GET, path, None, None, None, None, None, None) : path \in RoutingPaths}

InFlightCount == Cardinality({t \in Tasks : flights[t].pc # "idle"})

\* GatewayService::call: this = self.clone(), Router::clone copies the
\* counters and the cursor into new atomics
GatewayCall(t, r) ==
    /\ flights[t].pc = "idle"
    /\ served + InFlightCount < MaxRequests
    /\ flights' = [flights EXCEPT ![t] = [pc |-> "routing", request |-> r,
                                          router |-> Some(router_lb), dispatched |-> None]]
    /\ UNCHANGED <<enforcer, routed, router_lb, lb_log, rl_config, now, local_limits, checks,
                   zsets, rproc, overlapped, gw_config, req, stage, trace, resp, cache_store,
                   cache_pending, served, snap, audit, bearer_keys, first_body>>

\* route_request up to self.client.request(req): no route (404), no URI
\* (502) or a panic end the request, else it is dispatched to the route's
\* upstream
RouteAndDispatch(t) ==
    /\ flights[t].pc = "routing"
    /\ LET r == flights[t].request
           route == FindRoute(gw_config.routing, r.path, r.method)
       IN  IF IsSome(route) /\ BuildUpstreamUri(Unwrap(route), r).kind = "ok"
           THEN /\ flights' = [flights EXCEPT ![t].pc = "dispatched",
                                              ![t].dispatched = Some(Unwrap(route).upstream)]
                /\ served' = served
           ELSE /\ flights' = [flights EXCEPT ![t] = IdleFlight]
                /\ served' = served + 1
    /\ UNCHANGED <<enforcer, routed, router_lb, lb_log, rl_config, now, local_limits, checks,
                   zsets, rproc, overlapped, gw_config, req, stage, trace, resp, cache_store,
                   cache_pending, snap, audit, bearer_keys, first_body>>

\* the upstream's response or error arrives: the response goes out and the
\* clone is dropped
DispatchComplete(t) ==
    /\ flights[t].pc = "dispatched"
    /\ flights' = [flights EXCEPT ![t] = IdleFlight]
    /\ served' = served + 1
    /\ UNCHANGED <<enforcer, routed, router_lb, lb_log, rl_config, now, local_limits, checks,
                   zsets, rproc, overlapped, gw_config, req, stage, trace, resp, cache_store,
                   cache_pending, snap, audit, bearer_keys, first_body>>

NextDispatch ==
    \/ \E t \in Tasks, r \in DispatchRequests : GatewayCall(t, r)
    \/ \E t \in Tasks : RouteAndDispatch(t)
    \/ \E t \in Tasks : DispatchComplete(t)

SpecDispatch == InitRouter /\ [][NextDispatch]_vars

(***************************************************************************)
(* Reading the history of checks                                           *)
(***************************************************************************)
Rpm == rl_config.requests_per_minute

\* the admitted checks of key k among its first i that fall in the trailing
\* one-minute window of check i
AdmittedInWindow(k, i) ==
    Cardinality({j \in 1..Len(checks[k]) :
                    /\ checks[k][j].allowed
                    /\ checks[k][j].t <= checks[k][i].t
                    /\ checks[k][i].t - checks[k][j].t < WindowSecs})

\* the refill arithmetic of key k stayed inside the range of its integers
RefillInRange(k) ==
    \/ checks[k] = << >>
    \/ ((checks[k][Len(checks[k])].t - checks[k][1].t) * Rpm) \div WindowSecs + Rpm
          <= 2147483647

C2_LocalWindowBound ==
    \A k \in ClientKeys : \A i \in 1..Len(checks[k]) :
        checks[k][i].allowed =>
            AdmittedInWindow(k, i) <= Rpm + rl_config.burst_limit

(***************************************************************************)
(* C3: in distributed mode no trailing 60-second window of any key holds   *)
(* more than requests_per_minute admitted requests, whatever the arrival   *)
(* times.  Stated for checks made one after the other, so that no          *)
(* interleaving is involved.                                               *)
(***************************************************************************)
C3_DistributedWindowBound ==
    ~overlapped =>
        \A k \in ClientKeys : \A i \in 1..Len(checks[k]) :
            checks[k][i].allowed => AdmittedInWindow(k, i) <= Rpm

(***************************************************************************)
(* C4: a rejected check consumes nothing; in distributed mode a request    *)
(* rejected for exceeding the limit leaves no timestamp in the key's       *)
(* window: after checks made one after the other, every timestamp stored   *)
(* for a key belongs to an admitted request of that key.                   *)
(***************************************************************************)
NoStoreError ==
    \A k \in ClientKeys : \A i \in 1..Len(checks[k]) : ~checks[k][i].err

AdmittedStamps(k) ==
    {checks[k][i].t : i \in {j \in 1..Len(checks[k]) : checks[k][j].allowed}}

C4_RejectionLeavesNoTimestamp ==
    (InFlight = {} /\ NoStoreError /\ ~overlapped) =>
        \A k \in ClientKeys : zsets[k] \subseteq AdmittedStamps(k)

(***************************************************************************)
(* C5: concurrent checks of one key are never admitted past the limit,     *)
(* under every interleaving of their round-trips.  Stated for admitted     *)
(* requests with pairwise different timestamps, which sequential checks    *)
(* keep within the limit.                                                  *)
(***************************************************************************)
DistinctAdmitted(k) ==
    \A i, j \in 1..Len(checks[k]) :
        (i # j /\ checks[k][i].allowed /\ checks[k][j].allowed)
            => checks[k][i].t # checks[k][j].t

C5_ConcurrentChecksBound ==
    \A k \in ClientKeys :
        DistinctAdmitted(k) =>
            \A i \in 1..Len(checks[k]) :
                checks[k][i].allowed => AdmittedInWindow(k, i) <= Rpm

(***************************************************************************)
(* Reading a request in the stack                                          *)
(***************************************************************************)
InStack == stage # "idle"

AuthActed == InStack /\ Len(trace) >= 1

Reached(layer) == \E i \in 1..Len(trace) : trace[i] = layer

IsPrefix(a, b) == Len(a) <= Len(b) /\ SubSeq(b, 1, Len(a)) = a

NotCacheStore(layer) == layer # "cache_store"

StageOrder == <<"auth", "rate_limit", "cache", "router", "upstream">>

ProtectedPath == ~(\E pp \in PublicPaths : StartsWith(req.path, pp))

\* the service a service token is presented for, and whether the token is
\* the one configured for it
NamedService ==
    IF "x-mcp-service" \in DOMAIN req.headers THEN req.headers["x-mcp-service"]
    ELSE S_default

ServiceTokenMatches ==
    /\ "x-mcp-token" \in DOMAIN req.headers
    /\ \E sv \in DOMAIN gw_config.auth.mcp_auth_tokens :
          /\ sv = NamedService
          /\ gw_config.auth.mcp_auth_tokens[sv] = req.headers["x-mcp-token"]

\* the bearer tokens an issuer signed and that have not expired
GenuineTokens == {JwtGood, JwtOther}

PresentsBearer ==
    /\ "authorization" \in DOMAIN req.headers
    /\ StartsWith(req.headers["authorization"], S_Bearer)

BearerToken == SubSeq(req.headers["authorization"], Len(S_Bearer) + 1,
                      Len(req.headers["authorization"]))

ValidBearer == PresentsBearer /\ BearerToken \in GenuineTokens

Answered401 == stage = "done" /\ resp.status = 401 /\ trace = <<"auth">>

\* a claims header the request did not arrive with, or arrived with differently
ClaimsAttached ==
    \E h \in {"x-user-id", "x-user-roles"} :
        /\ h \in DOMAIN req.headers
        /\ \/ h \notin DOMAIN audit.arrived.headers
           \/ audit.arrived.headers[h] # req.headers[h]

(***************************************************************************)
(* C6: within one request the stages run in the order AuthGuard,           *)
(* RateLimiter, ResponseCache lookup, Router, upstream dispatch (the cache *)
(* layer's store comes last, after the Router), and a stage that answers   *)
(* ends the request: after a 401 only the AuthGuard ran and no rate-limit  *)
(* token was consumed, after a 429 only AuthGuard and RateLimiter ran and  *)
(* the cache is untouched, after a cache hit or a 304 neither the Router   *)
(* nor the upstream ran.                                                   *)
(***************************************************************************)
C6_StagesInOrder ==
    /\ IsPrefix(SelectSeq(trace, NotCacheStore), StageOrder)
    /\ \A i \in 1..Len(trace) :
          trace[i] = "cache_store" => (i = Len(trace) /\ Reached("router"))
    /\ resp.source = "auth" =>
          /\ resp.status = 401 /\ stage = "done" /\ trace = <<"auth">>
          /\ DOMAIN local_limits = DOMAIN snap.local_limits
          /\ \A k \in DOMAIN local_limits : local_limits[k] = snap.local_limits[k]
          /\ DOMAIN cache_store = DOMAIN snap.cache_store
    /\ resp.source = "rate_limit" =>
          /\ resp.status = 429 /\ stage = "done"
          /\ trace = <<"auth", "rate_limit">>
          /\ DOMAIN cache_store = DOMAIN snap.cache_store
          /\ \A k \in DOMAIN cache_store : cache_store[k] = snap.cache_store[k]
    /\ resp.source = "cache" =>
          /\ resp.status \in {200, 304} /\ stage = "done"
          /\ trace = <<"auth", "rate_limit", "cache">>

\* a request rejected by the limiter after the AuthGuard let it through
C6_Witness ==
    /\ stage = "done"
    /\ resp.status = 429
    /\ trace = <<"auth", "rate_limit">>
    /\ gw_config.auth.enabled

(***************************************************************************)
(* C7 as stated: a request whose path matches a blocked-path pattern or    *)
(* one of whose header values matches a suspicious-content pattern never   *)
(* reaches the Router or the upstream, and is answered 400.                *)
(***************************************************************************)
C7_SecurityEnforcerFirst ==
    (InStack /\ CheckRequest(enforcer, req) \in {"MaliciousPath", "SuspiciousContent"}) =>
        /\ ~Reached("router") /\ ~Reached("upstream")
        /\ stage = "done" => resp.status = 400

(***************************************************************************)
(* C8 as stated: with auth enabled, on a protected path, a request whose   *)
(* only credential is a bearer token that is empty, forged or expired is   *)
(* answered 401 by the AuthGuard, gets no X-User-ID or X-User-Roles, and   *)
(* is not passed to the next stage.                                        *)
(***************************************************************************)
C8_BadBearerRejected ==
    (/\ AuthActed
     /\ gw_config.auth.enabled
     /\ ProtectedPath
     /\ PresentsBearer /\ ~ValidBearer
     /\ "x-mcp-token" \notin DOMAIN req.headers)
    => (Answered401 /\ ~ClaimsAttached)

(***************************************************************************)
(* C9 as stated: with auth enabled, a request to a public path passes the  *)
(* AuthGuard whatever it carries, and a request to any other path with     *)
(* neither a matching service token nor a valid bearer token is answered   *)
(* 401 and no later stage runs.                                            *)
(***************************************************************************)
C9_PublicPassesOthersNeedCredential ==
    (AuthActed /\ gw_config.auth.enabled) =>
        /\ ~ProtectedPath => resp.source # "auth"
        /\ (ProtectedPath /\ ~ServiceTokenMatches /\ ~ValidBearer) => Answered401

(***************************************************************************)
(* C10: with auth enabled, on a protected path, a request carrying         *)
(* X-MCP-Token whose value is the token configured for the service named   *)
(* by X-MCP-Service ("default" when absent) passes the AuthGuard with no   *)
(* bearer check (no claims are attached, whatever Authorization says); a   *)
(* token that differs, or one for a service with no entry, admits nothing  *)
(* by itself: the request passes only through the bearer branch, and with  *)
(* no bearer token it is answered 401.                                     *)
(***************************************************************************)
C10_ServiceTokenExactMatch ==
    (/\ AuthActed
     /\ gw_config.auth.enabled
     /\ ProtectedPath
     /\ "x-mcp-token" \in DOMAIN req.headers)
    => /\ ServiceTokenMatches => (resp.source # "auth" /\ ~ClaimsAttached)
       /\ ~ServiceTokenMatches =>
             /\ resp.source # "auth" => ClaimsAttached
             /\ ~PresentsBearer => Answered401

\* a request admitted on the token of the service it names
C10_Witness ==
    /\ trace = <<"auth">>
    /\ stage = "rate_limit"
    /\ gw_config.auth.enabled
    /\ ProtectedPath
    /\ "x-mcp-service" \in DOMAIN req.headers
    /\ ServiceTokenMatches
    /\ "authorization" \notin DOMAIN req.headers

(***************************************************************************)
(* C11 as stated: the client key of the limiter's check is the identity    *)
(* the AuthGuard attached after validating a bearer token, and otherwise   *)
(* the source IP of the request: a request that passed the AuthGuard on    *)
(* another branch (public path, service token, auth disabled) is keyed by  *)
(* its source IP whatever headers it brought, and two requests             *)
(* authenticated as different subjects are keyed differently.              *)
(***************************************************************************)
\* the subject each genuine token was issued to
TokenSubject(token) == IF token = JwtGood THEN "alice" ELSE "bob"

\* the address the connection of the model's requests comes from
SourceIp == PeerIp

C11_ClientKeyIsAuthenticatedIdentity ==
    /\ IsSome(audit.rl_key) =>
          IF audit.via = "jwt"
          THEN Unwrap(audit.rl_key) = UserPrefix \o req.headers["x-user-id"]
          ELSE Unwrap(audit.rl_key) = IpPrefix \o SourceIp
    /\ \A p \in bearer_keys, q \in bearer_keys :
          (/\ p[1] \in GenuineTokens /\ q[1] \in GenuineTokens
           /\ TokenSubject(p[1]) # TokenSubject(q[1]))
          => p[2] # q[2]

(***************************************************************************)
(* Reading the cache layer's part in a request                             *)
(***************************************************************************)
CacheActed == InStack /\ Reached("cache")

\* the request as the claims describe a cache-eligible one: a GET with no
\* Authorization header and no no-cache directive
EligibleRequest ==
    /\ audit.arrived.method = M_GET
    /\ "authorization" \notin DOMAIN audit.arrived.headers
    /\ \/ "cache-control" \notin DOMAIN audit.arrived.headers
       \/ ~Contains(audit.arrived.headers["cache-control"], S_NoCache)

ArrivedKey == GenerateCacheKey(audit.arrived)

\* the entry the store held for the request's key when it arrived, and its age
HeldEntry == ArrivedKey \in DOMAIN snap.cache_store

EntryAge == now - snap.cache_store[ArrivedKey].timestamp

LiveEntry == HeldEntry /\ EntryAge < gw_config.cache.ttl_seconds

\* the store answered each lookup the cache layer made for the request
StoreAnswered ==
    \/ audit.lookups = <<TRUE, TRUE>>
    \/ (audit.lookups[1] /\ resp.status = 304)
    \/ ("if-none-match" \notin DOMAIN audit.arrived.headers /\ audit.lookups[2])

(***************************************************************************)
(* C12 as stated: a cache-eligible GET whose If-None-Match equals the ETag *)
(* of the live entry of its key (the value a hit returns in its ETag       *)
(* header) is answered 304 with an empty body and is not forwarded.        *)
(***************************************************************************)
C12_IfNoneMatchGets304 ==
    (/\ CacheActed
     /\ gw_config.cache.enabled
     /\ EligibleRequest
     /\ LiveEntry
     /\ StoreAnswered
     /\ "if-none-match" \in DOMAIN audit.arrived.headers
     /\ audit.arrived.headers["if-none-match"]
           = CreateResponseFromCache(snap.cache_store[ArrivedKey]).headers["etag"])
    => (resp.status = 304 /\ resp.body = "" /\ ~Reached("router"))

C14_ServedOnlyWhileFresh ==
    /\ (InStack /\ resp.source = "cache") => LiveEntry
    /\ (/\ CacheActed
        /\ gw_config.cache.enabled
        /\ EligibleRequest
        /\ HeldEntry
        /\ EntryAge >= gw_config.cache.ttl_seconds)
       => (resp.source # "cache" /\ (stage = "router" \/ Reached("router")))

\* a request forwarded although the store holds an entry, of age exactly ttl
C14_Witness ==
    /\ CacheActed
    /\ gw_config.cache.enabled
    /\ EligibleRequest
    /\ HeldEntry
    /\ EntryAge = gw_config.cache.ttl_seconds
    /\ audit.lookups[2]
    /\ Reached("router")

(***************************************************************************)
(* C15: a request that is not a GET, or whose Cache-Control contains       *)
(* no-cache, or that carries an Authorization header, bypasses the cache:  *)
(* the cache layer never answers it (no 200 hit, no 304) and never stores  *)
(* its response; the store is as it was when the request arrived.          *)
(***************************************************************************)
C15_IneligibleBypassesCache ==
    (InStack /\ ~EligibleRequest)
    => /\ resp.source # "cache"
       /\ ~Reached("cache_store")
       /\ cache_pending = None
       /\ DOMAIN cache_store = DOMAIN snap.cache_store
       /\ \A k \in DOMAIN cache_store : cache_store[k] = snap.cache_store[k]

\* a GET with an Authorization header answered 200 by the upstream while the
\* cache is enabled and holds an entry
C15_Witness ==
    /\ stage = "done"
    /\ gw_config.cache.enabled
    /\ audit.arrived.method = M_GET
    /\ "authorization" \in DOMAIN audit.arrived.headers
    /\ resp.source = "upstream"
    /\ resp.status = 200
    /\ DOMAIN snap.cache_store # {}

(***************************************************************************)
(* C16: only a response with a 2xx status and no Cache-Control containing  *)
(* no-cache or private is stored.  When the store changes during a request *)
(* the response is such a one; after any other response came back through  *)
(* the cache layer (the store having answered the lookups) the store is    *)
(* unchanged and holds no live entry for the key; and a request that finds *)
(* no live entry is forwarded to the Router.                               *)
(***************************************************************************)
StorableResponse ==
    /\ resp.status >= 200 /\ resp.status <= 299
    /\ \/ "cache-control" \notin DOMAIN resp.headers
       \/ (/\ ~Contains(resp.headers["cache-control"], S_NoCache)
           /\ ~Contains(resp.headers["cache-control"], S_Private))

StoreUnchanged ==
    /\ DOMAIN cache_store = DOMAIN snap.cache_store
    /\ \A k \in DOMAIN cache_store : cache_store[k] = snap.cache_store[k]

SecurityActed == stage \in {"inner", "done"} /\ Len(trace) >= 1 /\ trace[1] = "security"

\* the checks the request that arrived fails, in the order of the list of
\* C17: blocklist, path, query, header values, Content-Length, Origin
FailedChecks ==
    LET r == audit.arrived
        ip == GetClientIp(r)
    IN  <<IsSome(ip) /\ Unwrap(ip) \in enforcer.blocked_ips,
          BlockedPathMatches(r.path),
          IsSome(r.query) /\ SuspiciousPatternMatches(Unwrap(r.query)),
          \E h \in DOMAIN r.headers : SuspiciousPatternMatches(r.headers[h]),
          /\ "content-length" \in DOMAIN r.headers
          /\ IsSome(ParseUsize(r.headers["content-length"]))
          /\ Unwrap(ParseUsize(r.headers["content-length"])) > enforcer.max_request_size,
          /\ "origin" \in DOMAIN r.headers
          /\ enforcer.allowed_origins # {}
          /\ r.headers["origin"] \notin enforcer.allowed_origins>>

StatusOfCheck == <<403, 400, 400, 400, 413, 403>>

Failing == LET failed == FailedChecks IN {i \in 1..6 : failed[i]}

(***************************************************************************)
(* C17: the SecurityEnforcer tries the blocklist (on the first hop of      *)
(* X-Forwarded-For, else the peer address), the blocked-path patterns, the *)
(* query patterns, the header-value patterns, the Content-Length limit and *)
(* the Origin allow-list (when it is non-empty) in that order; a request   *)
(* that fails none reaches the inner service, and one that fails several   *)
(* is answered with the status of the earliest: 403 for a blocked address  *)
(* or a disallowed origin, 400 for a path or content match, 413 for an     *)
(* oversize Content-Length.                                                *)
(***************************************************************************)
C17_EarliestFailingCheckWins ==
    SecurityActed =>
        LET failing == Failing
        IN  IF failing = {}
            THEN Reached("inner") \/ stage = "inner"
            ELSE /\ stage = "done"
                 /\ trace = <<"security">>
                 /\ resp.source = "security"
                 /\ resp.status =
                       StatusOfCheck[CHOOSE i \in failing : \A j \in failing : i <= j]

\* a request over the size limit and from a disallowed origin: 413, the
\* status of the earlier of the two
C17_Witness ==
    /\ stage = "done"
    /\ trace = <<"security">>
    /\ Failing = {5, 6}
    /\ resp.status = 413

\* a request from a blocked address that also has a malicious path and a
\* suspicious query: 403
C17_WitnessBlockedFirst ==
    /\ stage = "done"
    /\ {1, 2, 3} \subseteq Failing
    /\ resp.status = 403

RouteTable == gw_config.routing.routes

\* the places in the table of the routes that match a call
MatchingPlaces(c) ==
    {i \in 1..Len(RouteTable) : MatchesRoute(RouteTable[i], c.path, c.method)}

(***************************************************************************)
(* C18: find_route returns the first route of the table, in its order,     *)
(* that matches the path and the method, whatever later routes match too;  *)
(* and two calls on the same table with the same path and method return    *)
(* the same route.                                                         *)
(***************************************************************************)
C18_FirstMatchInTableOrder ==
    /\ \A k \in 1..Len(routed) :
          LET places == MatchingPlaces(routed[k])
          IN  places # {} =>
                 routed[k].route =
                    Some(RouteTable[CHOOSE i \in places : \A j \in places : i <= j])
    /\ \A k1, k2 \in 1..Len(routed) :
          (routed[k1].path = routed[k2].path /\ routed[k1].method = routed[k2].method)
          => routed[k1].route = routed[k2].route

\* the same call made twice on a table where two routes match it: the
\* first of the two both times
C18_Witness ==
    /\ Len(routed) = 2
    /\ routed[1].path = routed[2].path
    /\ routed[1].method = routed[2].method
    /\ MatchingPlaces(routed[1]) = {1, 2}
    /\ routed[1].route = Some(RouteTable[1])
    /\ routed[2].route = Some(RouteTable[1])

\* the three kinds of pattern: a prefix wildcard ends in /*, a parameterized
\* one has a segment {name}, any other is exact
IsWildcardPattern(pattern) == EndsWith(pattern, <<"/", "*">>)

IsParameter(segment) == StartsWith(segment, <<"{">>) /\ EndsWith(segment, <<"}">>)

IsParameterizedPattern(pattern) ==
    ~IsWildcardPattern(pattern) /\ \E i \in 1..Len(Split(pattern)) : IsParameter(Split(pattern)[i])

\* the match C19 describes
DescribedMatch(route, path, method) ==
    /\ route.methods = {} \/ method \in route.methods
    /\ \/ route.path = path
       \/ /\ IsWildcardPattern(route.path)
          /\ IsPrefix(SubSeq(route.path, 1, Len(route.path) - 2), path)
       \/ /\ IsParameterizedPattern(route.path)
          /\ Len(Split(route.path)) = Len(Split(path))
          /\ \A i \in 1..Len(Split(route.path)) :
                ~IsParameter(Split(route.path)[i]) => Split(route.path)[i] = Split(path)[i]

InTable(route) == \E i \in 1..Len(RouteTable) : RouteTable[i] = route

(***************************************************************************)
(* C19: a route matches a request exactly when its method list is empty or *)
(* has the request's method and its pattern matches the path: an exact     *)
(* pattern an equal path, a pattern ending in /* a path that starts with   *)
(* what precedes the /*, a pattern with {name} segments a path of as many  *)
(* segments whose other segments are equal.  Seen through find_route: a    *)
(* route of the table it returns matches in this sense, and when it        *)
(* returns none of the table, no route of the table does.                  *)
(***************************************************************************)
C19_RouteMatchesAsDescribed ==
    \A k \in 1..Len(routed) :
        LET c == routed[k]
        IN  IF IsSome(c.route) /\ InTable(Unwrap(c.route))
            THEN DescribedMatch(Unwrap(c.route), c.path, c.method)
            ELSE \A i \in 1..Len(RouteTable) : ~DescribedMatch(RouteTable[i], c.path, c.method)

\* a GET to the path of a route that lists only POST finds no route, and a
\* path of two segments finds the parameterized route
C19_Witness ==
    /\ Len(routed) = 2
    /\ routed[1].method = M_GET
    /\ routed[1].path = RouteUsersPost.path
    /\ InTable(RouteUsersPost)
    /\ routed[1].route = None
    /\ routed[2].route = Some(RouteVParam)
    /\ routed[2].path # RouteVParam.path

\* a path that goes on after the prefix finds the wildcard route
C19_WitnessWildcard ==
    /\ Len(routed) >= 1
    /\ routed[1].route = Some(RouteApiWildcard)
    /\ Len(routed[1].path) > Len(RouteApiWildcard.path)

\* the route find_route returns for the request that arrived
ArrivedRoute == FindRoute(gw_config.routing, audit.arrived.path, audit.arrived.method)

\* a wildcard route of the table whose upstream ends in the placeholder
PlaceholderRoute ==
    /\ IsSome(ArrivedRoute)
    /\ InTable(Unwrap(ArrivedRoute))
    /\ IsWildcardPattern(Unwrap(ArrivedRoute).path)
    /\ IsWildcardPattern(Unwrap(ArrivedRoute).upstream)

\* the URL C20 describes: the upstream with its /* replaced by what follows
\* the pattern's prefix in the path, then the query
DescribedUpstreamUrl ==
    LET route == Unwrap(ArrivedRoute)
        r == audit.arrived
    IN  SubSeq(route.upstream, 1, Len(route.upstream) - 2)
        \o SubSeq(r.path, Len(route.path) - 1, Len(r.path))
        \o (IF IsSome(r.query) THEN <<"?">> \o Unwrap(r.query) ELSE << >>)

(***************************************************************************)
(* C20 as stated: for a request under the prefix of a wildcard route, the  *)
(* URL the gateway forwards to is the route's upstream with its /*         *)
(* replaced by the unmatched remainder of the path, followed by the query: *)
(* route /api/* with upstream http://u/* forwards /api/users/1?x=1 to      *)
(* http://u/users/1?x=1.                                                   *)
(***************************************************************************)
C20_WildcardUpstreamUrl ==
    (/\ InStack
     /\ Reached("router")
     /\ PlaceholderRoute
     /\ IsPrefix(SubSeq(Unwrap(ArrivedRoute).path, 1, Len(Unwrap(ArrivedRoute).path) - 1),
                 audit.arrived.path))
    => req.upstream_uri = Some(DescribedUpstreamUrl)

(***************************************************************************)
(* C21 as stated: for a request that a route matches, a path shorter than  *)
(* a wildcard pattern included, building the upstream URL either succeeds  *)
(* (the request goes on to the upstream) or ends the request with a 502;   *)
(* the request task never panics.                                          *)
(***************************************************************************)
C21_BuildSucceedsOr502 ==
    (InStack /\ Reached("router") /\ IsSome(ArrivedRoute))
    => /\ resp.source # "panic"
       /\ \/ IsSome(req.upstream_uri)
          \/ (stage = "done" /\ resp.status = 502)

\* no route of the table matches the request that arrived
NoRouteMatches ==
    \A i \in 1..Len(RouteTable) :
        ~MatchesRoute(RouteTable[i], audit.arrived.path, audit.arrived.method)

(***************************************************************************)
(* C22: when no route of the table matches, a configured default upstream  *)
(* takes the request whatever its method (the gateway forwards it to the   *)
(* default upstream and answers no 404), and with no default upstream      *)
(* find_route returns none: the gateway answers 404 and dispatches         *)
(* nothing.                                                                *)
(***************************************************************************)
C22_DefaultUpstreamOr404 ==
    (InStack /\ Reached("router") /\ NoRouteMatches) =>
        IF IsSome(gw_config.routing.default_upstream)
        THEN /\ IsSome(req.upstream_uri)
             /\ IsPrefix(Unwrap(gw_config.routing.default_upstream), Unwrap(req.upstream_uri))
             /\ resp.status # 404
        ELSE /\ stage = "done"
             /\ resp.status = 404
             /\ ~Reached("upstream")
             /\ req.upstream_uri = None

\* a PATCH that no route matches, on its way to the default upstream
C22_Witness ==
    /\ stage = "upstream"
    /\ NoRouteMatches
    /\ audit.arrived.method \notin {M_GET, M_POST, M_PUT, M_DELETE}
    /\ IsSome(gw_config.routing.default_upstream)
    /\ IsSome(req.upstream_uri)

\* no match and no default upstream: the 404
C22_Witness404 ==
    /\ stage = "done"
    /\ NoRouteMatches
    /\ gw_config.routing.default_upstream = None
    /\ resp.status = 404

\* the requests dispatched to an upstream and not yet completed
DispatchedTo(u) ==
    {t \in Tasks : flights[t].pc = "dispatched" /\ flights[t].dispatched = Some(u)}

(***************************************************************************)
(* C23 as stated: at every moment the connection count of each upstream,   *)
(* on the Router all requests share, is the number of requests dispatched  *)
(* to that upstream and not yet completed (so it is 0 when none is in      *)
(* flight).                                                                *)
(***************************************************************************)
C23_CountIsRequestsInFlight ==
    \A u \in DOMAIN router_lb.connection_counts :
        router_lb.connection_counts[u] = <<0, 0, 0, Cardinality(DispatchedTo(u))>>

\* the calls of one kind made on a counter so far
CallsMade(op, u) == {k \in 1..Len(lb_log) : lb_log[k].op = op /\ lb_log[k].upstream = u}

(***************************************************************************)
(* C24 as stated: after any sequence of increment_connection and           *)
(* decrement_connection calls, a decrement at 0 included, every connection *)
(* count is a number that did not wrap around: it is at most the number of *)
(* increments made on it.                                                  *)
(***************************************************************************)
C24_CountNeverWraps ==
    \A u \in DOMAIN router_lb.connection_counts :
        LET count == router_lb.connection_counts[u]
        IN  /\ count[1] = 0 /\ count[2] = 0 /\ count[3] = 0
            /\ count[4] <= Cardinality(CallsMade("increment", u))

(***************************************************************************)
(* C25 as stated: the requests the gateway handles, concurrently too,      *)
(* choose their upstream by select_upstream on one shared cursor: every    *)
(* dispatch follows a selection of its upstream, and no two selections     *)
(* observe the same cursor value.                                          *)
(***************************************************************************)
C25_RequestsAdvanceSharedCursor ==
    /\ \A t \in Tasks :
          flights[t].pc = "dispatched" =>
             \E k \in 1..Len(lb_log) :
                 lb_log[k].op = "select" /\ Some(lb_log[k].upstream) = flights[t].dispatched
    /\ \A k1, k2 \in 1..Len(lb_log) :
          (k1 # k2 /\ lb_log[k1].op = "select" /\ lb_log[k2].op = "select")
          => lb_log[k1].observed # lb_log[k2].observed

\* how often a layer acted on the request
TimesActed(layer) == Cardinality({i \in 1..Len(trace) : trace[i] = layer})

(***************************************************************************)
(* C26 as stated: a request is dispatched upstream at most once; a         *)
(* dispatch that fails to connect is answered 502; and a dispatch does not *)
(* stay pending beyond the timeout of its route: by then it is cancelled   *)
(* (and answered 504).                                                     *)
(***************************************************************************)
C26_OneDispatchWithinTimeout ==
    (InStack /\ Reached("router") /\ IsSome(ArrivedRoute)) =>
        /\ TimesActed("router") = 1
        /\ TimesActed("upstream") <= 1
        /\ (Reached("upstream") /\ resp.source = "router") => resp.status = 502
        /\ (stage = "upstream" /\ IsSome(Unwrap(ArrivedRoute).timeout_ms)) =>
              (now - audit.dispatched_at) * 1000 <= Unwrap(Unwrap(ArrivedRoute).timeout_ms)

\* the stages of the gateway that reject a request themselves
RejectingStages == {"security", "auth", "rate_limit", "router"}

\* the body {"error": {"code": <status>, "message": <string>,
\* "timestamp": <RFC 3339 time>}}
IsUniformErrorBody(json, status) ==
    /\ json.kind = "object"
    /\ DOMAIN json.fields = {"error"}
    /\ LET error == json.fields["error"]
       IN  /\ error.kind = "object"
           /\ DOMAIN error.fields = {"code", "message", "timestamp"}
           /\ error.fields["code"] = JNum(status)
           /\ error.fields["message"].kind = "string"
           /\ error.fields["timestamp"].kind = "rfc3339"

\* C27: every response with which a stage of the gateway rejects a request
\* (400, 401, 403, 404, 413, 429, 502, 504) has the JSON body
\* {"error": {"code", "message", "timestamp"}} whose code is the status of
\* the response
C27_UniformErrorBody ==
    (resp.source \in RejectingStages /\ resp.status >= 400)
        => IsUniformErrorBody(resp.json, resp.status)

\* the router's own rejections do have that body
C27_RouterBodyIsUniform ==
    (resp.source = "router" /\ resp.status >= 400)
        => IsUniformErrorBody(resp.json, resp.status)

\* the tokens of key k in a map of the limiter: a key without an entry has
\* the requests_per_minute tokens its entry is created with
TokensOf(limits, k) == IF k \in DOMAIN limits THEN limits[k].tokens ELSE Rpm

\* what one check of key k did to its bucket
BucketStep(k) ==
    LET before == TokensOf(local_limits, k)
        after == TokensOf(local_limits', k)
        check == checks'[k][Len(checks'[k])]
    IN  /\ 0 <= after /\ after <= Rpm
        /\ Len(checks'[k]) > Len(checks[k]) =>
               \* admitted: one token taken from a count no larger than the limit
               /\ check.allowed => after + 1 <= Rpm
               \* a new key starts with requests_per_minute tokens
               /\ (k \notin DOMAIN local_limits /\ ~check.err)
                      => check.allowed /\ after = Rpm - 1
               \* no time passed, so no refill: exactly one token less
               /\ (k \in DOMAIN local_limits /\ check.allowed
                     /\ check.t = local_limits[k].last_refill)
                      => after = before - 1
               \* rejected: the bucket was and stays empty
               /\ (~check.allowed /\ ~check.err) => after = 0

\* C28: in local mode the token count of every key stays within
\* 0..requests_per_minute over every check, also after an idle period long
\* enough for the refill to leave the 32-bit range: a new key starts with
\* requests_per_minute tokens, a refill never raises the count above
\* requests_per_minute, an admission lowers it by exactly one, never below 0
C28_TokensWithinLimit == [][\A k \in ClientKeys : BucketStep(k)]_vars

\* a key checked again after 257698037 idle seconds, its sum of tokens and
\* refill wrapped around 2^32 and the key admitted
C28_Witness ==
    \E k \in ClientKeys :
        LET n == Len(checks[k])
        IN  /\ n >= 2
            /\ Rpm = 1000
            /\ checks[k][n].t - checks[k][n - 1].t = 257698037
            /\ checks[k][n].allowed
            /\ local_limits[k].tokens < Rpm - 13

\* the same check with overflow checks on: the task panicked
C28_WitnessPanic ==
    \E k \in ClientKeys : \E i \in 1..Len(checks[k]) : checks[k][i].err

\* the checks that were admitted
AdmittedChecks == {<<k, i>> \in ClientKeys \X (1..MaxChecks + 1) :
                      i <= Len(checks[k]) /\ checks[k][i].allowed}

\* no check that failed at the store was admitted and the local bucket was
\* never used
AdmittedThroughStoreOnly ==
    /\ local_limits = << >>
    /\ \A c \in AdmittedChecks : ~checks[c[1]][c[2]].err

\* C29: with a shared store configured (redis_url set), a check during
\* which the store cannot be reached or a command fails is rejected with
\* 429 and not forwarded; no request is admitted without a completed
\* round-trip to the store and the local bucket is never used instead
C29_NoAdmissionWithoutStore ==
    IsSome(rl_config.redis_url) => AdmittedThroughStoreOnly

\* with a client built from the URL, a failed round-trip does reject
C29_FailedRoundTripRejects ==
    IsSome(NewRedisClient(rl_config)) => AdmittedThroughStoreOnly

\* a check that failed at the store and was rejected
C29_SeenFailedRoundTrip ==
    /\ IsSome(NewRedisClient(rl_config))
    /\ \E k \in ClientKeys : \E i \in 1..Len(checks[k]) : checks[k][i].err

\* the default upstream followed by the path and the query the request
\* arrived with
DefaultUpstreamUrl ==
    Unwrap(gw_config.routing.default_upstream)
    \o audit.arrived.path
    \o (IF IsSome(audit.arrived.query) THEN <<"?">> \o Unwrap(audit.arrived.query)
        ELSE << >>)

(***************************************************************************)
(* C30 as stated: a request that no route matches and that falls through   *)
(* to the default upstream is forwarded to the default upstream with its   *)
(* path and query unchanged, so that requests with different paths go to   *)
(* different upstream URLs.                                                *)
(***************************************************************************)
C30_DefaultUpstreamKeepsPath ==
    (/\ InStack
     /\ Reached("router")
     /\ NoRouteMatches
     /\ IsSome(gw_config.routing.default_upstream))
    => req.upstream_uri = Some(DefaultUpstreamUrl)

\* what the code forwards to instead: the default upstream and the query,
\* whatever the path
C30_PathDropped ==
    (/\ InStack
     /\ Reached("router")
     /\ NoRouteMatches
     /\ IsSome(gw_config.routing.default_upstream))
    => req.upstream_uri =
          Some(Unwrap(gw_config.routing.default_upstream)
               \o (IF IsSome(audit.arrived.query)
                   THEN <<"?">> \o Unwrap(audit.arrived.query) ELSE << >>))

====
